---- MODULE Spec2Model ----
(***************************************************************************)
(* Verification model of the marketing-insight-pipeline repository.        *)
(*                                                                         *)
(* The repository is a collection of independent programs; each one is a   *)
(* state machine over its own group of variables and has its own           *)
(* specification:                                                          *)
(*   Spec          the data-extraction agent (LangGraph workflow and       *)
(*                 process_query) across sessions                          *)
(*   SpecAnswer    the same agent with every kind of LLM answer            *)
(*   SpecTools     the query tools and the process-wide warehouse client   *)
(*   SpecProducer  the simple Kafka producer loop                          *)
(*   SpecIngestion the Snowflake batch ingestion run                       *)
(*   SpecRag       the RAG service behind its REST API                     *)
(*   SpecMemory    the Firestore session storage of the agent              *)
(*   SpecBuilder   the SQL builder over the semantic models                *)
(*   SpecSink      the Kafka consumer that writes to the warehouse         *)
(*   SpecChain     the RAG QA chain and the service's ask_question         *)
(*   SpecConsole   the Kafka consumer that prints to the console           *)
(*   SpecUi        the delete button of the standalone RAG UI              *)
(*   SpecChat      the chatbot's answer to a document query                *)
(*   SpecPdf       the PDF processor                                       *)
(*   SpecSim       the sales simulator page                                *)
(*   SpecUpload    uploads made on the RAG service itself                  *)
(* A specification leaves the variables of the other programs unchanged.   *)
(***************************************************************************)
EXTENDS Integers, Sequences, FiniteSets, TLC

VARIABLES
    \* ---- data-extraction agent (ai_agent/core/workflows/data_extraction.py)
    enable_memory,   \* self.enable_memory
    checkpointer,    \* the checkpointer the workflow was compiled with
    threads,         \* the checkpointer's storage: thread_id -> messages
    pc,              \* position of the current process_query call
    session_id,      \* session id of the current call
    messages,        \* state["messages"] of the running workflow
    llm_input,       \* the message list of the latest llm_with_tools.invoke
    result,          \* what the latest process_query gave its caller
    failed,          \* an exception occurred inside the latest call
    used_ids,        \* session ids seen so far (uuid4 never repeats one)
    since_clear,     \* history: messages added per session since its last clear
    produced,        \* history: messages ever added per session
    prev_node,       \* the workflow node that ran last in the current call
    ncalls,          \* number of process_query calls started
    nsteps,          \* agent steps taken in the current call
    \* ---- query tools (ai_agent/core/tools/query_tool.py)
    snowflake_client, config_valid, attempts, failed_once, tool_call, ntools,
    \* ---- simple producer (kafka_streaming/producer_simple.py)
    clock0, elapsed, last_news_fetch, ppc, btc_fetches, news_fetches,
    news_times, published, flushes, iteration,
    \* ---- batch ingestion (data_ingestion/snowflake_data_ingestion.py)
    ipc, connection, cursor, steps, schemas, table_rows, validation_results,
    validation_log,
    raised,
    \* ---- RAG service and REST API (ai_agent/rag/rag_service.py, api.py)
    rag_service, temp_files, index_vectors, history, response, upload, nreq,
    \* ---- cloud memory storage (ai_agent/core/utils/cloud_memory.py)
    firestore_client, docs, returned, nops,
    \* ---- SQL builder (ai_agent/core/tools/sql_builder.py)
    sql_request, sql_query,
    \* ---- warehouse-sink consumer (kafka_streaming/consumer_snowflake.py)
    sink_pc, sink_consumer, snowflake_conn, raw_rows, last_message, sink_polls,
    \* ---- RAG QA chain (ai_agent/rag/qa_chain.py, rag_service.py)
    search_kwargs, chat_memory, chain_result, chain_calls,
    \* ---- console consumer (kafka_streaming/consumer_console.py)
    console_pc, stats_counter, message_counts, printed, console_event, console_polls, idle_polls,
    \* ---- standalone RAG UI (ai_agent/rag/streamlit_app.py)
    confirm_delete, ui_vectors, ui_event, ui_counts,
    \* ---- integrated chatbot, document mode (ai_agent/chatbot/integrated_chatbot.py)
    chat_pc, chat_sources, chat_answer,
    \* ---- PDF processor (ai_agent/rag/pdf_processor.py)
    pdf_pc, pdf_file, pdf_pages, pdf_result,
    \* ---- sales simulator (streaming_simulation/streamlit_sales_generator.py)
    generating, start_enabled, stop_enabled, total_transactions, total_revenue, sim_event, sim_renders

agentVars == <<enable_memory, checkpointer, threads, pc, session_id, messages,
               llm_input, result, failed, used_ids, since_clear, produced,
               prev_node, ncalls, nsteps>>
toolVars  == <<snowflake_client, config_valid, attempts, failed_once,
               tool_call, ntools>>
prodVars  == <<clock0, elapsed, last_news_fetch, ppc, btc_fetches,
               news_fetches, news_times, published, flushes, iteration>>
ingVars   == <<ipc, connection, cursor, steps, schemas, table_rows,
               validation_results, validation_log, raised>>
ragVars   == <<rag_service, temp_files, index_vectors, history, response,
               upload, nreq>>
memVars   == <<firestore_client, docs, returned, nops>>
builderVars == <<sql_request, sql_query>>
sinkVars  == <<sink_pc, sink_consumer, snowflake_conn, raw_rows, last_message, sink_polls>>
chainVars == <<search_kwargs, chat_memory, chain_result, chain_calls>>
consoleVars == <<console_pc, stats_counter, message_counts, printed, console_event, console_polls, idle_polls>>
uiVars    == <<confirm_delete, ui_vectors, ui_event, ui_counts>>
chatVars  == <<chat_pc, chat_sources, chat_answer>>
pdfVars   == <<pdf_pc, pdf_file, pdf_pages, pdf_result>>
simVars   == <<generating, start_enabled, stop_enabled, total_transactions, total_revenue, sim_event, sim_renders>>
\* the programs added to the model after the first five
extVars   == <<memVars, builderVars, sinkVars, chainVars, consoleVars, uiVars, chatVars, pdfVars, simVars>>
coreVars  == <<agentVars, toolVars, prodVars, ingVars, ragVars>>
vars == <<agentVars, toolVars, prodVars, ingVars, ragVars, extVars>>
\* what the actions of one added program leave unchanged
notMemVars == <<coreVars, builderVars, sinkVars, chainVars, consoleVars, uiVars, chatVars, pdfVars, simVars>>
notBuilderVars == <<coreVars, memVars, sinkVars, chainVars, consoleVars, uiVars, chatVars, pdfVars, simVars>>
notSinkVars == <<coreVars, memVars, builderVars, chainVars, consoleVars, uiVars, chatVars, pdfVars, simVars>>
notChainVars == <<coreVars, memVars, builderVars, sinkVars, consoleVars, uiVars, chatVars, pdfVars, simVars>>
notConsoleVars == <<coreVars, memVars, builderVars, sinkVars, chainVars, uiVars, chatVars, pdfVars, simVars>>
notUiVars == <<coreVars, memVars, builderVars, sinkVars, chainVars, consoleVars, chatVars, pdfVars, simVars>>
notChatVars == <<coreVars, memVars, builderVars, sinkVars, chainVars, consoleVars, uiVars, pdfVars, simVars>>
notPdfVars == <<coreVars, memVars, builderVars, sinkVars, chainVars, consoleVars, uiVars, chatVars, simVars>>
notSimVars == <<coreVars, memVars, builderVars, sinkVars, chainVars, consoleVars, uiVars, chatVars, pdfVars>>

(***************************************************************************)
(* Bounds                                                                  *)
(***************************************************************************)
MaxCalls == 2        \* process_query calls in one behaviour
MaxSteps == 2        \* agent steps in one workflow run

(***************************************************************************)
(* Data-extraction agent                                                   *)
(***************************************************************************)
CallerIds == {"s1", "s2"}          \* session ids a caller passes
UuidPool  == {"u1", "u2", "u3", "u4"}   \* values of uuid.uuid4()
SessionIds == CallerIds \cup UuidPool
NoSession == "None"

\* uuid.uuid4(): an id no earlier call used
uuid4(used) == CHOOSE u \in UuidPool \ used : TRUE

\* kinds of message content: plain answer text, text that begins with
\* "Tool execution results:", the empty string, a list of content blocks
TextContents == {"answer", "tool_results_prefix", "empty"}
Contents == TextContents \cup {"blocks"}
\* content of a response that carries tool calls: empty text or content blocks
ToolCallContents == {"empty", "blocks"}
\* how many tool calls a response carries: none, or several
ToolCallCounts == {0, 2}

Msg(t, c, n, s, k, i) ==
    [type |-> t, content |-> c, tool_calls |-> n, sid |-> s, call |-> k, id |-> i]

SystemMessage == Msg("system", "system_prompt", 0, NoSession, 0, 0)
HumanMessage(s, k, i) == Msg("human", "query", 0, s, k, i)
AIMessage(c, n, s, k, i) == Msg("ai", c, n, s, k, i)
ToolMessage(s, k, i) == Msg("tool", "tool_output", 0, s, k, i)

RECURSIVE add_messages(_, _)
\* the reducer of AgentState.messages: a right-hand message replaces the
\* left-hand message with the same id, any other is appended
add_messages(left, right) ==
    IF right = <<>> THEN left
    ELSE LET m == Head(right)
             hit == {i \in 1..Len(left) : left[i].id = m.id}
         IN  IF hit = {}
             THEN add_messages(Append(left, m), Tail(right))
             ELSE add_messages([i \in 1..Len(left) |->
                                   IF i \in hit THEN m ELSE left[i]],
                               Tail(right))

\* an agent node that hands the state's messages to the LLM as they are
agent_input_plain(msgs) == msgs

\* the list handed to the LLM by _agent_node
agent_input(msgs) ==
    IF msgs = <<>> \/ msgs[1].type # "system"
    THEN <<SystemMessage>> \o msgs
    ELSE msgs

\* _should_continue
should_continue(msgs) ==
    IF msgs[Len(msgs)].type = "ai" /\ msgs[Len(msgs)].tool_calls > 0
    THEN "continue" ELSE "end"

\* edge map with the two targets exchanged
edge_after_agent_swapped(msgs) ==
    IF should_continue(msgs) = "continue" THEN "end" ELSE "tools"

\* the conditional edge map of _build_workflow
edge_after_agent(msgs) ==
    IF should_continue(msgs) = "continue" THEN "tools" ELSE "end"

\* a checkpointer that files every session under one key
thread_key_shared(sid) == "s1"

\* thread key under which the checkpointer files a session
thread_key(sid) == sid

has_memory == enable_memory /\ checkpointer # "None"

\* clear_session_memory: delete_thread when the checkpointer offers it
clear_session_memory(th, sid) ==
    IF enable_memory /\ checkpointer = "saver"
    THEN [th EXCEPT ![thread_key(sid)] = <<>>]
    ELSE th

\* what the checkpointer holds for a thread when a run starts
checkpoint_of(th, sid) ==
    IF has_memory THEN th[thread_key(sid)] ELSE <<>>

\* the checkpointer's write after a workflow step
put_checkpoint(th, sid, msgs) ==
    IF has_memory THEN [th EXCEPT ![thread_key(sid)] = msgs] ELSE th

RECURSIVE scan_reversed_any(_, _)
\* a scan that takes the last AIMessage whatever its content begins with
scan_reversed_any(msgs, i) ==
    IF i = 0 THEN [kind |-> "unable", content |-> "none"]
    ELSE IF msgs[i].type # "ai" THEN scan_reversed_any(msgs, i - 1)
    ELSE IF msgs[i].content = "blocks" THEN [kind |-> "sorry", content |-> "none"]
    ELSE [kind |-> "content", content |-> msgs[i].content]

RECURSIVE scan_reversed(_, _)
\* the reversed scan of process_query over result["messages"], from index i
\* down: the first AIMessage whose content does not start with
\* "Tool execution results:" is returned; content that is not a string has no
\* startswith and raises
scan_reversed(msgs, i) ==
    IF i = 0 THEN [kind |-> "unable", content |-> "none"]
    ELSE IF msgs[i].type # "ai" THEN scan_reversed(msgs, i - 1)
    ELSE IF msgs[i].content = "blocks" THEN [kind |-> "sorry", content |-> "none"]
    ELSE IF msgs[i].content # "tool_results_prefix"
         THEN [kind |-> "content", content |-> msgs[i].content]
    ELSE scan_reversed(msgs, i - 1)

Sorry == [kind |-> "sorry", content |-> "none"]
NoResult == [kind |-> "none", content |-> "none"]

AgentInit ==
    /\ enable_memory \in BOOLEAN
    /\ checkpointer \in (IF enable_memory
                         THEN {"None", "saver", "saver_without_delete"}
                         ELSE {"None"})
    /\ threads = [s \in SessionIds |-> <<>>]
    /\ pc = "idle"
    /\ session_id = NoSession
    /\ messages = <<>>
    /\ llm_input = <<>>
    /\ result = NoResult
    /\ failed = FALSE
    /\ used_ids = {}
    /\ since_clear = [s \in SessionIds |-> <<>>]
    /\ produced = [s \in SessionIds |-> <<>>]
    /\ prev_node = "none"
    /\ ncalls = 0
    /\ nsteps = 0

AgentOff ==
    /\ enable_memory = FALSE
    /\ checkpointer = "None"
    /\ threads = [s \in SessionIds |-> <<>>]
    /\ pc = "idle"
    /\ session_id = NoSession
    /\ messages = <<>>
    /\ llm_input = <<>>
    /\ result = NoResult
    /\ failed = FALSE
    /\ used_ids = {}
    /\ since_clear = [s \in SessionIds |-> <<>>]
    /\ produced = [s \in SessionIds |-> <<>>]
    /\ prev_node = "none"
    /\ ncalls = 0
    /\ nsteps = 0

last(msgs) == msgs[Len(msgs)]

RECURSIVE tool_outputs(_, _, _, _)
\* ToolNode: one ToolMessage per pending tool call of the last message
tool_outputs(n, sid, k, next_id) ==
    IF n = 0 THEN <<>>
    ELSE <<ToolMessage(sid, k, next_id)>> \o tool_outputs(n - 1, sid, k, next_id + 1)

\* process_query up to the workflow's first node: session id, optional clear,
\* cloud-memory load, initial state, and the checkpointer's merge of the input
\* into the thread
StartCall(sid_arg, clear_session, load_raises) ==
    /\ pc = "idle"
    /\ ncalls < MaxCalls
    /\ load_raises => enable_memory
    /\ LET sid == IF sid_arg = NoSession THEN uuid4(used_ids) ELSE sid_arg
      IN LET cleared == clear_session /\ enable_memory
             th1 == IF cleared THEN clear_session_memory(threads, sid) ELSE threads
             k == ncalls + 1
             stored == checkpoint_of(th1, sid)
             human == HumanMessage(sid, k, Len(stored) + 1)
             msgs == add_messages(stored, <<human>>)
         IN  /\ session_id' = sid
             /\ used_ids' = used_ids \cup {sid}
             /\ ncalls' = k
             /\ nsteps' = 0
             /\ prev_node' = "none"
             /\ llm_input' = <<>>
             /\ since_clear' = IF cleared /\ checkpointer = "saver"
                               THEN [since_clear EXCEPT ![sid] =
                                        IF load_raises THEN <<>> ELSE <<human>>]
                               ELSE IF load_raises THEN since_clear
                               ELSE [since_clear EXCEPT ![sid] = Append(@, human)]
             /\ IF load_raises
                THEN /\ threads' = th1
                     /\ result' = Sorry
                     /\ failed' = TRUE
                     /\ pc' = "idle"
                     /\ UNCHANGED <<messages, produced>>
                ELSE /\ messages' = msgs
                     /\ threads' = put_checkpoint(th1, sid, msgs)
                     /\ produced' = [produced EXCEPT ![sid] = Append(@, human)]
                     /\ result' = NoResult
                     /\ failed' = FALSE
                     /\ pc' = "agent"
    /\ UNCHANGED <<enable_memory, checkpointer>>
    /\ UNCHANGED <<toolVars, prodVars, ingVars, ragVars, extVars>>

\* _agent_node followed by the conditional edge; the LLM either raises or
\* answers with some content and some number of tool calls
AgentStep(llm_raises, content, ntc) ==
    /\ pc = "agent"
    /\ nsteps < MaxSteps
    /\ ntc > 0 => nsteps + 1 < MaxSteps /\ content \in ToolCallContents
    /\ llm_input' = agent_input(messages)
    /\ nsteps' = nsteps + 1
    /\ IF llm_raises
       THEN /\ result' = Sorry
            /\ failed' = TRUE
            /\ pc' = "idle"
            /\ UNCHANGED <<messages, threads, since_clear, produced, prev_node>>
       ELSE LET resp == AIMessage(content, ntc, session_id, ncalls, Len(messages) + 1)
                msgs == add_messages(messages, messages \o <<resp>>)
            IN  /\ messages' = msgs
                /\ threads' = put_checkpoint(threads, session_id, msgs)
                /\ since_clear' = [since_clear EXCEPT ![session_id] = Append(@, resp)]
                /\ produced' = [produced EXCEPT ![session_id] = Append(@, resp)]
                /\ prev_node' = "agent"
                /\ pc' = edge_after_agent(msgs)
                /\ UNCHANGED <<result, failed>>
    /\ UNCHANGED <<enable_memory, checkpointer, session_id, used_ids, ncalls>>
    /\ UNCHANGED <<toolVars, prodVars, ingVars, ragVars, extVars>>

\* the tools node and its unconditional edge back to agent
ToolsStep ==
    /\ pc = "tools"
    /\ LET outs == tool_outputs(last(messages).tool_calls, session_id, ncalls,
                                Len(messages) + 1)
           msgs == add_messages(messages, outs)
       IN  /\ messages' = msgs
           /\ threads' = put_checkpoint(threads, session_id, msgs)
           /\ since_clear' = [since_clear EXCEPT ![session_id] = @ \o outs]
           /\ produced' = [produced EXCEPT ![session_id] = @ \o outs]
    /\ prev_node' = "tools"
    /\ pc' = "agent"
    /\ UNCHANGED <<enable_memory, checkpointer, session_id, llm_input, result,
                   failed, used_ids, ncalls, nsteps>>
    /\ UNCHANGED <<toolVars, prodVars, ingVars, ragVars, extVars>>

\* process_query after the workflow returned: cloud save, then the reversed
\* scan for the answer; every exception ends in the "Sorry" string
FinishCall(save_raises) ==
    /\ pc = "end"
    /\ save_raises => enable_memory
    /\ LET r == IF save_raises THEN Sorry ELSE scan_reversed(messages, Len(messages))
       IN  /\ result' = r
           /\ failed' = (r = Sorry)
    /\ pc' = "idle"
    /\ UNCHANGED <<enable_memory, checkpointer, threads, session_id, messages,
                   llm_input, used_ids, since_clear, produced, prev_node,
                   ncalls, nsteps>>
    /\ UNCHANGED <<toolVars, prodVars, ingVars, ragVars, extVars>>

(***************************************************************************)
(* Query tools and the process-wide warehouse client                       *)
(***************************************************************************)
MaxToolRuns == 4     \* tool invocations in one behaviour

NoClient == 0        \* snowflake_client = None
NotConfigured == "Error: Snowflake client not configured. Please check connection settings."
FilterKinds == {"none", "object", "invalid_json", "not_object"}
ExecOutcomes == {"rows", "empty", "raises"}

\* create_snowflake_client: SnowflakeClient.__init__ raises when a required
\* parameter is missing; a constructed client is named by the attempt that
\* built it
create_snowflake_client(valid, attempt) == IF valid THEN attempt ELSE NoClient

\* a lookup that builds a new client on every call
get_snowflake_client_uncached(client, valid, attempt) ==
    create_snowflake_client(valid, attempt)

\* get_snowflake_client: the value of the global after the call
get_snowflake_client(client, valid, attempt) ==
    IF client = NoClient THEN create_snowflake_client(valid, attempt) ELSE client

\* does get_snowflake_client call create_snowflake_client
constructs(client) == client = NoClient

\* build_sales_query / build_generic_query seen from the tool: "error" for an
\* unknown table or metric, "raises" when the parsed filters have no items(),
\* otherwise SQL text
build_outcome(table_ok, metric_ok, filters) ==
    IF ~table_ok \/ ~metric_ok THEN "error"
    ELSE IF filters = "not_object" THEN "raises"
    ELSE "sql"

\* the record kept of a tool invocation: its arguments, the client it got,
\* the string it returned, whether it built SQL and whether it ran SQL
Call(tool, client, table_ok, metric_ok, filters, res, built, executed) ==
    [tool |-> tool, client |-> client, table_ok |-> table_ok,
     metric_ok |-> metric_ok, filters |-> filters, result |-> res,
     built |-> built, executed |-> executed]

\* a tool body that parses additional_filters before it looks at the client
run_query_parse_first(tool, client, table_ok, metric_ok, filters, exec) ==
    IF filters = "invalid_json"
    THEN Call(tool, client, table_ok, metric_ok, filters,
              "Error: Invalid JSON format", FALSE, FALSE)
    ELSE IF client = NoClient
    THEN Call(tool, client, table_ok, metric_ok, filters, NotConfigured, FALSE, FALSE)
    ELSE Call(tool, client, table_ok, metric_ok, filters,
              "Query executed successfully!", TRUE, TRUE)

\* body shared by run_sales_query and run_generic_query: client check, filter
\* parsing, query building, execution, formatting
run_query(tool, client, table_ok, metric_ok, filters, exec) ==
    IF client = NoClient
    THEN Call(tool, client, table_ok, metric_ok, filters, NotConfigured, FALSE, FALSE)
    ELSE IF filters = "invalid_json"
    THEN Call(tool, client, table_ok, metric_ok, filters,
              "Error: Invalid JSON format", FALSE, FALSE)
    ELSE IF build_outcome(table_ok, metric_ok, filters) = "error"
    THEN Call(tool, client, table_ok, metric_ok, filters,
              "Error: not supported", TRUE, FALSE)
    ELSE IF build_outcome(table_ok, metric_ok, filters) = "raises"
    THEN Call(tool, client, table_ok, metric_ok, filters,
              "Error executing query", TRUE, FALSE)
    ELSE Call(tool, client, table_ok, metric_ok, filters,
              CASE exec = "rows" -> "Query executed successfully!"
                [] exec = "empty" -> "Query executed successfully but returned no results."
                [] OTHER -> "Error executing query",
              TRUE, TRUE)

\* body of test_snowflake_connection
run_test(client, conn_ok) ==
    IF client = NoClient
    THEN Call("test_snowflake_connection", client, TRUE, TRUE, "none",
              NotConfigured, FALSE, FALSE)
    ELSE Call("test_snowflake_connection", client, TRUE, TRUE, "none",
              IF conn_ok THEN "Snowflake connection test successful!"
              ELSE "Snowflake connection test failed.",
              FALSE, TRUE)

NoToolCall == Call("none", NoClient, TRUE, TRUE, "none", "none", FALSE, FALSE)

ToolsInit ==
    /\ snowflake_client = NoClient
    /\ config_valid \in BOOLEAN
    /\ attempts = 0
    /\ failed_once = FALSE
    /\ tool_call = NoToolCall
    /\ ntools = 0

ToolsOff ==
    /\ snowflake_client = NoClient
    /\ config_valid = FALSE
    /\ attempts = 0
    /\ failed_once = FALSE
    /\ tool_call = NoToolCall
    /\ ntools = 0

\* the effect of get_snowflake_client on the global and on the history
ClientLookup ==
    /\ snowflake_client' = get_snowflake_client(snowflake_client, config_valid, attempts + 1)
    /\ attempts' = IF constructs(snowflake_client) THEN attempts + 1 ELSE attempts
    /\ failed_once' = (failed_once \/ (constructs(snowflake_client) /\ ~config_valid))
    /\ ntools' = ntools + 1
    /\ UNCHANGED config_valid

\* the process environment gains or loses a required SNOWFLAKE_* variable
ConfigChange ==
    /\ config_valid' = ~config_valid
    /\ UNCHANGED <<snowflake_client, attempts, failed_once, tool_call, ntools>>
    /\ UNCHANGED <<agentVars, prodVars, ingVars, ragVars, extVars>>

RunSalesQuery(metric_ok, filters, exec) ==
    /\ ntools < MaxToolRuns
    /\ ClientLookup
    /\ tool_call' = run_query("run_sales_query", snowflake_client', TRUE,
                              metric_ok, filters, exec)
    /\ UNCHANGED <<agentVars, prodVars, ingVars, ragVars, extVars>>

RunGenericQuery(table_ok, metric_ok, filters, exec) ==
    /\ ntools < MaxToolRuns
    /\ ClientLookup
    /\ tool_call' = run_query("run_generic_query", snowflake_client', table_ok,
                              metric_ok, filters, exec)
    /\ UNCHANGED <<agentVars, prodVars, ingVars, ragVars, extVars>>

TestSnowflakeConnection(conn_ok) ==
    /\ ntools < MaxToolRuns
    /\ ClientLookup
    /\ tool_call' = run_test(snowflake_client', conn_ok)
    /\ UNCHANGED <<agentVars, prodVars, ingVars, ragVars, extVars>>

(***************************************************************************)
(* Simple producer loop                                                    *)
(***************************************************************************)
RunSpan == 181           \* virtual seconds of the run that are observed
BitcoinPeriod == 30      \* time.sleep(30)
NewsGate == 90           \* current_time - last_news_fetch >= 90

\* readings of time.time() at the first loop iteration: a virtual clock that
\* starts at zero, one that starts at the gate, and a wall clock
ClockStarts == {0, 90, 1700000000}

BitcoinOutcomes == {"data", "none", "null_price", "produce_raises"}
NewsOutcomes == {"data", "none", "produce_raises"}

\* a gate that opens only after more than NewsGate seconds
news_due_strict(current_time, last_fetch) == current_time - last_fetch > NewsGate

\* the news gate of run()
news_due(current_time, last_fetch) == current_time - last_fetch >= NewsGate

\* a stamp that only a successful news fetch moves
news_stamp_on_success(current_time, last_fetch, news) ==
    IF news = "data" THEN current_time ELSE last_fetch

\* the value run() leaves in last_news_fetch after a gated news attempt
news_stamp(current_time, last_fetch, news) == current_time

\* a loop that logs an exception of an iteration and goes on
loop_exit_logged(cause) ==
    IF cause = "KeyboardInterrupt" THEN [ppc |-> "stopped", flushes |-> 1]
    ELSE [ppc |-> "running", flushes |-> 0]

\* run(): how an iteration ends; KeyboardInterrupt is caught and run()
\* returns, any other exception leaves run(), both through the finally
\* clause, which flushes the producer
loop_exit(cause) ==
    IF cause = "KeyboardInterrupt" THEN [ppc |-> "stopped", flushes |-> 1]
    ELSE IF cause = "Exception" THEN [ppc |-> "crashed", flushes |-> 1]
    ELSE [ppc |-> "running", flushes |-> 0]

\* iteration records the last pass of the loop: what the Bitcoin and the
\* news steps did and whether an exception was raised in it
NoIteration == [btc |-> "none", news |-> "none", raised |-> FALSE]

ProducerInit ==
    /\ clock0 \in ClockStarts
    /\ elapsed = 0
    /\ last_news_fetch = 0
    /\ ppc = "running"
    /\ btc_fetches = 0
    /\ news_fetches = 0
    /\ news_times = {}
    /\ published = [bitcoin |-> 0, news |-> 0]
    /\ flushes = 0
    /\ iteration = NoIteration

ProducerOff ==
    /\ clock0 = 0
    /\ elapsed = 0
    /\ last_news_fetch = 0
    /\ ppc = "off"
    /\ btc_fetches = 0
    /\ news_fetches = 0
    /\ news_times = {}
    /\ published = [bitcoin |-> 0, news |-> 0]
    /\ flushes = 0
    /\ iteration = NoIteration

\* one pass of the while loop of run(): Bitcoin fetch and publish, gated news
\* fetch and publish, poll, sleep; an exception other than KeyboardInterrupt
\* leaves the loop through the finally clause
Iteration(btc, news) ==
    /\ ppc = "running"
    /\ elapsed <= RunSpan
    /\ LET current_time == clock0 + elapsed
           btc_published == btc \in {"data", "null_price"}
           btc_crash == btc \in {"null_price", "produce_raises"}
           due == ~btc_crash /\ news_due(current_time, last_news_fetch)
           news_published == due /\ news = "data"
           news_crash == due /\ news = "produce_raises"
       IN  /\ btc_fetches' = btc_fetches + 1
           /\ news_fetches' = IF due THEN news_fetches + 1 ELSE news_fetches
           /\ news_times' = IF due THEN news_times \cup {elapsed} ELSE news_times
           /\ published' = [bitcoin |-> published.bitcoin + (IF btc_published THEN 1 ELSE 0),
                            news |-> published.news + (IF news_published THEN 1 ELSE 0)]
           /\ last_news_fetch' = IF due /\ ~news_crash
                                 THEN news_stamp(current_time, last_news_fetch, news)
                                 ELSE last_news_fetch
           /\ LET x == loop_exit(IF btc_crash \/ news_crash THEN "Exception" ELSE "none")
              IN  /\ ppc' = x.ppc
                  /\ flushes' = flushes + x.flushes
           /\ iteration' = [btc |-> btc, news |-> IF due THEN news ELSE "skipped",
                            raised |-> btc_crash \/ news_crash]
           /\ elapsed' = IF btc_crash \/ news_crash THEN elapsed
                         ELSE elapsed + BitcoinPeriod
    /\ UNCHANGED clock0
    /\ UNCHANGED <<agentVars, toolVars, ingVars, ragVars, extVars>>

\* KeyboardInterrupt: caught, the producer is flushed and run() returns
Interrupt ==
    /\ ppc = "running"
    /\ LET x == loop_exit("KeyboardInterrupt")
       IN  /\ ppc' = x.ppc
           /\ flushes' = flushes + x.flushes
    /\ UNCHANGED <<clock0, elapsed, last_news_fetch, btc_fetches, news_fetches,
                   news_times, published, iteration>>
    /\ UNCHANGED <<agentVars, toolVars, ingVars, ragVars, extVars>>

(***************************************************************************)
(* Snowflake batch ingestion                                               *)
(***************************************************************************)
MaxRows == 2         \* rows a table may hold

Tables == {"CUSTOMERSDATA", "ONLINE_SALES"}

\* the statement order of run_full_ingestion's try block
StepOrder == <<"connect", "create_file_format", "create_stage", "create_tables",
               "upload_files", "load_data", "validate", "quality_checks",
               "summary">>

\* a run whose failure path leaves without the finally clause
next_step_no_finally(name, ok) ==
    IF ~ok THEN "done"
    ELSE CASE name = "connect" -> "create_file_format"
           [] name = "create_file_format" -> "create_stage"
           [] name = "create_stage" -> "create_tables"
           [] name = "create_tables" -> "upload_files"
           [] name = "upload_files" -> "load_data"
           [] name = "load_data" -> "validate"
           [] name = "validate" -> "quality_checks"
           [] name = "quality_checks" -> "summary"
           [] name = "summary" -> "close"
           [] OTHER -> "done"

\* the step run_full_ingestion goes to after step `name` ended; a raise
\* leaves the try block for the finally clause
next_step(name, ok) ==
    IF ~ok THEN "close"
    ELSE CASE name = "connect" -> "create_file_format"
           [] name = "create_file_format" -> "create_stage"
           [] name = "create_stage" -> "create_tables"
           [] name = "create_tables" -> "upload_files"
           [] name = "upload_files" -> "load_data"
           [] name = "load_data" -> "validate"
           [] name = "validate" -> "quality_checks"
           [] name = "quality_checks" -> "summary"
           [] name = "summary" -> "close"
           [] OTHER -> "done"

\* close_connection: a handle that was opened is closed
close_handle(h) == IF h = "open" THEN "closed" ELSE h

\* an entry that takes a failed count query for a match
validation_entry_lenient(expected, actual, count_fails) ==
    IF count_fails
    THEN [expected_rows |-> expected, actual_rows |-> 0, match |-> TRUE,
          error |-> TRUE]
    ELSE [expected_rows |-> expected, actual_rows |-> actual,
          match |-> (expected = actual), error |-> FALSE]

\* one entry of validate_data_loads
validation_entry(expected, actual, count_fails) ==
    IF count_fails
    THEN [expected_rows |-> expected, actual_rows |-> 0, match |-> FALSE,
          error |-> TRUE]
    ELSE [expected_rows |-> expected, actual_rows |-> actual,
          match |-> (expected = actual), error |-> FALSE]

NoValidation == [t \in Tables |-> [expected_rows |-> 0, actual_rows |-> 0,
                                   match |-> FALSE, error |-> FALSE]]

IngestionInit ==
    /\ ipc = "connect"
    /\ connection = "None"
    /\ cursor = "None"
    /\ steps = <<>>
    /\ schemas \in [Tables -> 0..MaxRows]
    /\ table_rows = [t \in Tables |-> 0]
    /\ validation_results = NoValidation
    /\ validation_log = "none"
    /\ raised = FALSE

IngestionOff ==
    /\ ipc = "off"
    /\ connection = "None"
    /\ cursor = "None"
    /\ steps = <<>>
    /\ schemas = [t \in Tables |-> 1]
    /\ table_rows = [t \in Tables |-> 0]
    /\ validation_results = NoValidation
    /\ validation_log = "none"
    /\ raised = FALSE

\* bookkeeping common to the steps: log the step, move on or leave the try
StepDone(name, ok) ==
    /\ ipc = name
    /\ steps' = Append(steps, [name |-> name, ok |-> ok])
    /\ ipc' = next_step(name, ok)
    /\ raised' = ~ok

\* connect_to_snowflake: connect, open a cursor, run the version query
ConnectToSnowflake(outcome) ==
    /\ StepDone("connect", outcome = "ok")
    /\ connection' = IF outcome = "connect_fails" THEN "None" ELSE "open"
    /\ cursor' = IF outcome \in {"connect_fails", "cursor_fails"} THEN "None" ELSE "open"
    /\ UNCHANGED <<schemas, table_rows, validation_results, validation_log>>
    /\ UNCHANGED <<agentVars, toolVars, prodVars, ragVars, extVars>>

CreateFileFormat(ok) ==
    /\ StepDone("create_file_format", ok)
    /\ UNCHANGED <<connection, cursor, schemas, table_rows, validation_results, validation_log>>
    /\ UNCHANGED <<agentVars, toolVars, prodVars, ragVars, extVars>>

CreateStage(ok) ==
    /\ StepDone("create_stage", ok)
    /\ UNCHANGED <<connection, cursor, schemas, table_rows, validation_results, validation_log>>
    /\ UNCHANGED <<agentVars, toolVars, prodVars, ragVars, extVars>>

\* create_tables: CREATE OR REPLACE TABLE for every schema
CreateTables(ok) ==
    /\ StepDone("create_tables", ok)
    /\ table_rows' = [t \in Tables |-> 0]
    /\ UNCHANGED <<connection, cursor, schemas, validation_results, validation_log>>
    /\ UNCHANGED <<agentVars, toolVars, prodVars, ragVars, extVars>>

UploadFilesToStage(ok) ==
    /\ StepDone("upload_files", ok)
    /\ UNCHANGED <<connection, cursor, schemas, table_rows, validation_results, validation_log>>
    /\ UNCHANGED <<agentVars, toolVars, prodVars, ragVars, extVars>>

\* load_data_to_tables: COPY INTO each table; the warehouse decides how many
\* rows arrive
LoadDataToTables(ok, rows) ==
    /\ StepDone("load_data", ok)
    /\ table_rows' = rows
    /\ UNCHANGED <<connection, cursor, schemas, validation_results, validation_log>>
    /\ UNCHANGED <<agentVars, toolVars, prodVars, ragVars, extVars>>

\* validate_data_loads: a failed count query is recorded, never raised
ValidateDataLoads(count_fails) ==
    /\ StepDone("validate", TRUE)
    /\ validation_results' =
          [t \in Tables |-> validation_entry(schemas[t], table_rows[t], t \in count_fails)]
    /\ UNCHANGED <<connection, cursor, schemas, table_rows, validation_log>>
    /\ UNCHANGED <<agentVars, toolVars, prodVars, ragVars, extVars>>

\* run_data_quality_checks: every check failure is logged and swallowed
RunDataQualityChecks(check_fails) ==
    /\ StepDone("quality_checks", TRUE)
    /\ UNCHANGED <<connection, cursor, schemas, table_rows, validation_results, validation_log>>
    /\ UNCHANGED <<agentVars, toolVars, prodVars, ragVars, extVars>>

\* generate_summary_report: a failure is logged and swallowed; back in
\* run_full_ingestion the validation results are checked and the outcome logged
GenerateSummaryReport(query_fails) ==
    /\ StepDone("summary", TRUE)
    /\ validation_log' = IF \A t \in Tables : validation_results[t].match
                         THEN "all_passed" ELSE "some_failed"
    /\ UNCHANGED <<connection, cursor, schemas, table_rows, validation_results>>
    /\ UNCHANGED <<agentVars, toolVars, prodVars, ragVars, extVars>>

\* the finally clause: close_connection, then the pending raise (if any)
\* reaches the caller
CloseConnection ==
    /\ ipc = "close"
    /\ steps' = Append(steps, [name |-> "close", ok |-> TRUE])
    /\ cursor' = close_handle(cursor)
    /\ connection' = close_handle(connection)
    /\ ipc' = "done"
    /\ UNCHANGED <<schemas, table_rows, validation_results, validation_log, raised>>
    /\ UNCHANGED <<agentVars, toolVars, prodVars, ragVars, extVars>>

(***************************************************************************)
(* RAG service and its REST API                                            *)
(***************************************************************************)
MaxRequests == 4     \* HTTP requests in one behaviour

BatchSize == 100                 \* add_documents(batch_size=100)
DocCounts == {1, 150}            \* chunk counts a processed PDF may yield
TempOutcomes == {"ok", "create_fails", "write_fails"}
ProcessOutcomes == {"docs", "empty", "raises"}

\* an add_documents that takes back the batches it added when one fails
add_batches_atomic(n, i, batch_no, fail_batch) ==
    LET last_batch == batch_no + ((n - i + BatchSize - 1) \div BatchSize) - 1
    IN  IF i >= n THEN [added |-> 0, ok |-> TRUE, failed_batch |-> 0]
        ELSE IF fail_batch \in batch_no..last_batch
        THEN [added |-> 0, ok |-> FALSE, failed_batch |-> fail_batch]
        ELSE [added |-> n - i, ok |-> TRUE, failed_batch |-> 0]

RECURSIVE add_batches(_, _, _, _)
\* the batch loop of PineconeVectorStore.add_documents from offset i: the
\* vectors upserted before the loop ends, and whether it ended by an exception
add_batches(n, i, batch_no, fail_batch) ==
    IF i >= n THEN [added |-> 0, ok |-> TRUE, failed_batch |-> 0]
    ELSE IF batch_no = fail_batch
    THEN [added |-> 0, ok |-> FALSE, failed_batch |-> batch_no]
    ELSE LET size == IF n - i < BatchSize THEN n - i ELSE BatchSize
             rest == add_batches(n, i + BatchSize, batch_no + 1, fail_batch)
         IN  [added |-> size + rest.added, ok |-> rest.ok,
              failed_batch |-> rest.failed_batch]

\* RAGService.upload_pdf: process the PDF, add its chunks, report; added is
\* the number of vectors upserted, vector_ids the number of ids in the
\* result, failed_batch the batch at which add_documents raised (0: none)
upload_pdf(process, n, fail_batch) ==
    IF process = "raises" \/ process = "empty"
    THEN [success |-> FALSE, document_count |-> 0, added |-> 0,
          vector_ids |-> 0, failed_batch |-> 0]
    ELSE LET r == add_batches(n, 0, 1, fail_batch)
         IN  IF r.ok THEN [success |-> TRUE, document_count |-> n, added |-> r.added,
                           vector_ids |-> r.added, failed_batch |-> 0]
             ELSE [success |-> FALSE, document_count |-> 0, added |-> r.added,
                   vector_ids |-> 0, failed_batch |-> r.failed_batch]

\* RAGService.upload_pdf_from_bytes: temporary file, upload_pdf, unlink; the
\* except branch returns a failure without touching the file
upload_pdf_from_bytes(temp, process, n, fail_batch) ==
    IF temp = "create_fails"
    THEN [called |-> TRUE, success |-> FALSE, document_count |-> 0, added |-> 0,
          temp_exists |-> FALSE]
    ELSE IF temp = "write_fails"
    THEN [called |-> TRUE, success |-> FALSE, document_count |-> 0, added |-> 0,
          temp_exists |-> TRUE]
    ELSE LET r == upload_pdf(process, n, fail_batch)
         IN  [called |-> TRUE, success |-> r.success,
              document_count |-> r.document_count, added |-> r.added,
              temp_exists |-> FALSE]

NoUpload == [called |-> FALSE, success |-> FALSE, document_count |-> 0,
             added |-> 0, temp_exists |-> FALSE]

\* PineconeVectorStore.get_index_stats: the statistics, or {} when the call
\* to the index fails
get_index_stats(call_fails) == IF call_fails THEN "empty_dict" ELSE "stats"

\* RAGService.delete_documents as called by the API (no doc_id)
delete_documents(delete_all, delete_ok) == delete_all /\ delete_ok

\* a successful JSON response
ok_response(route, health, stats) ==
    [route |-> route, status |-> 200, detail |-> FALSE, type |-> "none",
     health |-> health, stats |-> stats, origin |-> "handler"]

\* the framework's answer to an HTTPException(status_code, detail)
http_exception(route, status) ==
    [route |-> route, status |-> status, detail |-> TRUE, type |-> "none",
     health |-> "none", stats |-> "none", origin |-> "handler"]

\* a handler that answers like the framework does for an HTTPException
general_exception_handler_plain(route) ==
    [route |-> route, status |-> 500, detail |-> TRUE, type |-> "none",
     health |-> "none", stats |-> "none", origin |-> "handler"]

\* general_exception_handler: the answer to an exception no route turned
\* into an HTTPException
general_exception_handler(route) ==
    [route |-> route, status |-> 500, detail |-> TRUE, type |-> "internal_error",
     health |-> "none", stats |-> "none", origin |-> "handler"]

\* the body of health_check
health_check(call_fails, inner_raises) ==
    IF inner_raises THEN http_exception("health", 503)
    ELSE ok_response("health", "healthy", get_index_stats(call_fails))

\* a request: the get_rag_service dependency, the handler, and the response
\* encoding; `escapes` is an exception outside every try block of the route
dispatch(route, escapes, handled) ==
    IF ~rag_service THEN [http_exception(route, 503) EXCEPT !.origin = "dependency"]
    ELSE IF escapes THEN [general_exception_handler(route) EXCEPT !.origin = "escaped"]
    ELSE handled

NoResponse == [route |-> "none", status |-> 0, detail |-> FALSE, type |-> "none",
               health |-> "none", stats |-> "none", origin |-> "none"]

RagInit ==
    /\ rag_service \in BOOLEAN
    /\ temp_files = 0
    /\ index_vectors = 0
    /\ history = 0
    /\ response = NoResponse
    /\ upload = NoUpload
    /\ nreq = 0

RagOff ==
    /\ rag_service = FALSE
    /\ temp_files = 0
    /\ index_vectors = 0
    /\ history = 0
    /\ response = NoResponse
    /\ upload = NoUpload
    /\ nreq = 0

Request ==
    /\ nreq < MaxRequests
    /\ nreq' = nreq + 1
    /\ UNCHANGED rag_service
    /\ UNCHANGED <<agentVars, toolVars, prodVars, ingVars, extVars>>

\* GET /
Root ==
    /\ Request
    /\ response' = ok_response("root", "none", "none")
    /\ UNCHANGED <<temp_files, index_vectors, history, upload>>

\* GET /health
HealthCheck(call_fails, inner_raises, escapes) ==
    /\ Request
    /\ response' = dispatch("health", escapes, health_check(call_fails, inner_raises))
    /\ UNCHANGED <<temp_files, index_vectors, history, upload>>

\* POST /upload
UploadPdf(is_pdf, temp, process, n, fail_batch, inner_raises, escapes) ==
    /\ Request
    /\ IF ~rag_service \/ escapes \/ ~is_pdf \/ inner_raises
       THEN /\ response' = dispatch("upload", escapes,
                              IF ~is_pdf THEN http_exception("upload", 400)
                              ELSE http_exception("upload", 500))
            /\ UNCHANGED <<temp_files, index_vectors, upload>>
       ELSE LET r == upload_pdf_from_bytes(temp, process, n, fail_batch)
            IN  /\ upload' = r
                /\ temp_files' = temp_files + (IF r.temp_exists THEN 1 ELSE 0)
                /\ index_vectors' = index_vectors + r.added
                /\ response' = IF r.success THEN ok_response("upload", "none", "none")
                               ELSE http_exception("upload", 400)
    /\ UNCHANGED history

\* POST /ask
AskQuestion(with_namespace, conversational, chain_ok, inner_raises, escapes) ==
    /\ Request
    /\ response' = dispatch("ask", escapes,
                            IF inner_raises THEN http_exception("ask", 500)
                            ELSE ok_response("ask", "none", "none"))
    /\ history' = IF rag_service /\ ~escapes /\ ~with_namespace /\ conversational /\ chain_ok
                  THEN history + 1 ELSE history
    /\ UNCHANGED <<temp_files, index_vectors, upload>>

\* POST /search
SearchDocuments(inner_raises, escapes) ==
    /\ Request
    /\ response' = dispatch("search", escapes,
                            IF inner_raises THEN http_exception("search", 500)
                            ELSE ok_response("search", "none", "none"))
    /\ UNCHANGED <<temp_files, index_vectors, history, upload>>

\* GET /conversation/history
GetConversationHistory(inner_raises, escapes) ==
    /\ Request
    /\ response' = dispatch("get_history", escapes,
                            IF inner_raises THEN http_exception("get_history", 500)
                            ELSE ok_response("get_history", "none", "none"))
    /\ UNCHANGED <<temp_files, index_vectors, history, upload>>

\* DELETE /conversation/history
ClearConversationHistory(clear_ok, inner_raises, escapes) ==
    /\ Request
    /\ response' = dispatch("clear_history", escapes,
                            IF inner_raises THEN http_exception("clear_history", 500)
                            ELSE ok_response("clear_history", "none", "none"))
    /\ history' = IF rag_service /\ ~escapes /\ ~inner_raises /\ clear_ok
                  THEN 0 ELSE history
    /\ UNCHANGED <<temp_files, index_vectors, upload>>

\* GET /index/stats
GetIndexStats(call_fails, inner_raises, escapes) ==
    /\ Request
    /\ response' = dispatch("index_stats", escapes,
                            IF inner_raises THEN http_exception("index_stats", 500)
                            ELSE ok_response("index_stats", "none", get_index_stats(call_fails)))
    /\ UNCHANGED <<temp_files, index_vectors, history, upload>>

\* DELETE /documents
DeleteDocuments(delete_all, delete_ok, inner_raises, escapes) ==
    /\ Request
    /\ LET done == rag_service /\ ~escapes /\ ~inner_raises
                   /\ delete_documents(delete_all, delete_ok)
       IN  /\ response' = dispatch("delete", escapes,
                              IF inner_raises THEN http_exception("delete", 500)
                              ELSE IF delete_documents(delete_all, delete_ok)
                              THEN ok_response("delete", "none", "none")
                              ELSE http_exception("delete", 400))
           /\ index_vectors' = IF done THEN 0 ELSE index_vectors
    /\ UNCHANGED <<temp_files, history, upload>>

\* RAGService.upload_pdf called on a file, as the tabs of the UIs do
ServiceUploadPdf(process, n, fail_batch) ==
    /\ Request
    /\ rag_service
    /\ LET r == upload_pdf(process, n, fail_batch)
       IN  /\ upload' = [called |-> TRUE, success |-> r.success,
                         document_count |-> r.document_count, added |-> r.added,
                         temp_exists |-> FALSE, vector_ids |-> r.vector_ids,
                         failed_batch |-> r.failed_batch, process |-> process]
           /\ index_vectors' = index_vectors + r.added
    /\ response' = [NoResponse EXCEPT !.route = "service_upload"]
    /\ UNCHANGED <<temp_files, history>>

(***************************************************************************)
(* Cloud memory storage                                                    *)
(***************************************************************************)
MaxMemoryOps == 3    \* CloudMemoryStorage calls in one behaviour

MemSessions == {"m1", "m2"}
\* a session document: none, one updated after the cleanup cutoff, one
\* updated before it
DocStates == {"absent", "recent", "old"}

\* is_available
is_available(cl) == cl # "None"

\* what an operation did: its return value (count for a number), whether it
\* made a remote call, whether the remote call failed, whether it raised
Outcome(v, c, d, rem, err, exc) ==
    [value |-> v, count |-> c, docs |-> d, remote |-> rem,
     failed |-> err, raised |-> exc]

save_session(cl, d, sid, fails) ==
    IF ~is_available(cl) THEN Outcome("False", 0, d, FALSE, FALSE, FALSE)
    ELSE IF fails THEN Outcome("False", 0, d, TRUE, TRUE, FALSE)
    ELSE Outcome("True", 0, [d EXCEPT ![sid] = "recent"], TRUE, FALSE, FALSE)

\* a load that lets the remote error through
load_session_propagates(cl, d, sid, fails) ==
    IF ~is_available(cl) THEN Outcome("None", 0, d, FALSE, FALSE, FALSE)
    ELSE IF fails THEN Outcome("raised", 0, d, TRUE, TRUE, TRUE)
    ELSE IF d[sid] # "absent" THEN Outcome("session_data", 0, d, TRUE, FALSE, FALSE)
    ELSE Outcome("None", 0, d, TRUE, FALSE, FALSE)

load_session(cl, d, sid, fails) ==
    IF ~is_available(cl) THEN Outcome("None", 0, d, FALSE, FALSE, FALSE)
    ELSE IF fails THEN Outcome("None", 0, d, TRUE, TRUE, FALSE)
    ELSE IF d[sid] # "absent" THEN Outcome("session_data", 0, d, TRUE, FALSE, FALSE)
    ELSE Outcome("None", 0, d, TRUE, FALSE, FALSE)

delete_session(cl, d, sid, fails) ==
    IF ~is_available(cl) THEN Outcome("False", 0, d, FALSE, FALSE, FALSE)
    ELSE IF fails THEN Outcome("False", 0, d, TRUE, TRUE, FALSE)
    ELSE Outcome("True", 0, [d EXCEPT ![sid] = "absent"], TRUE, FALSE, FALSE)

\* list_sessions: one summary per document, the empty list when the query or
\* the stream fails
list_sessions(cl, d, fails) ==
    IF ~is_available(cl) THEN Outcome("[]", 0, d, FALSE, FALSE, FALSE)
    ELSE IF fails THEN Outcome("[]", 0, d, TRUE, TRUE, FALSE)
    ELSE LET n == Cardinality({s \in MemSessions : d[s] # "absent"})
         IN  Outcome(IF n = 0 THEN "[]" ELSE "summaries", n, d, TRUE, FALSE, FALSE)

\* the documents older than the cutoff
old_sessions(d) == {s \in MemSessions : d[s] = "old"}

\* cleanup_old_sessions: the query streams the old documents and the loop
\* deletes them one by one, counting; `deleted` is the set deleted before the
\* loop ended; an error in the query or in a delete returns 0
cleanup_old_sessions(cl, d, query_fails, deleted) ==
    IF ~is_available(cl) THEN Outcome("0", 0, d, FALSE, FALSE, FALSE)
    ELSE IF query_fails THEN Outcome("0", 0, d, TRUE, TRUE, FALSE)
    ELSE LET after == [s \in MemSessions |-> IF s \in deleted THEN "absent" ELSE d[s]]
         IN  IF deleted = old_sessions(d)
             THEN Outcome("deleted_count", Cardinality(deleted), after, TRUE, FALSE, FALSE)
             ELSE Outcome("0", 0, after, TRUE, TRUE, FALSE)

NoReturn == [op |-> "none", value |-> "none", count |-> 0, remote |-> FALSE,
             failed |-> FALSE, raised |-> FALSE, removed |-> {}]

\* __init__: the client exists when Firestore is importable, a project id is
\* set and the client could be created
MemoryInit ==
    /\ firestore_client \in {"None", "firestore"}
    /\ docs \in [MemSessions -> DocStates]
    /\ returned = NoReturn
    /\ nops = 0

MemoryOff ==
    /\ firestore_client = "off"
    /\ docs = [s \in MemSessions |-> "absent"]
    /\ returned = NoReturn
    /\ nops = 0

\* one call of an operation with outcome r
MemoryCall(op, r) ==
    /\ nops < MaxMemoryOps
    /\ nops' = nops + 1
    /\ docs' = r.docs
    /\ returned' = [op |-> op, value |-> r.value, count |-> r.count,
                    remote |-> r.remote, failed |-> r.failed, raised |-> r.raised,
                    removed |-> {s \in MemSessions : docs[s] # "absent" /\ r.docs[s] = "absent"}]
    /\ UNCHANGED firestore_client
    /\ UNCHANGED notMemVars

SaveSession(sid, fails) == MemoryCall("save_session", save_session(firestore_client, docs, sid, fails))

LoadSession(sid, fails) == MemoryCall("load_session", load_session(firestore_client, docs, sid, fails))

DeleteSession(sid, fails) == MemoryCall("delete_session", delete_session(firestore_client, docs, sid, fails))

ListSessions(fails) == MemoryCall("list_sessions", list_sessions(firestore_client, docs, fails))

CleanupOldSessions(query_fails, deleted) ==
    /\ deleted \subseteq old_sessions(docs)
    /\ MemoryCall("cleanup_old_sessions", cleanup_old_sessions(firestore_client, docs, query_fails, deleted))

(***************************************************************************)
(* SQL builder                                                             *)
(***************************************************************************)
\* semantic_model.py: the metrics and dimensions maps, the table and the date
\* column of the four registered models
fct_sales_semantic ==
    [table |-> "fct_sales",
     metrics |-> [total_net_sales |-> "SUM(net_sales_amount)",
                  total_gross_sales |-> "SUM(gross_sales_amount)",
                  total_quantity |-> "SUM(quantity)",
                  average_discount |-> "AVG(discount_percentage)",
                  total_gst |-> "SUM(gst_amount)",
                  total_delivery_charges |-> "SUM(delivery_charges)",
                  average_order_value |-> "AVG(total_amount)",
                  total_discount_amount |-> "SUM(discount_amount)",
                  transaction_count |-> "COUNT(DISTINCT transaction_id)",
                  total_revenue |-> "SUM(total_amount)"],
     dimensions |-> [sale_size_category |-> "sale_size_category",
                     month |-> "TO_CHAR(transaction_date, 'YYYY-MM')",
                     year |-> "EXTRACT(YEAR FROM transaction_date)",
                     quarter |-> "TO_CHAR(transaction_date, 'YYYY-Q')",
                     transaction_date |-> "transaction_date",
                     customer_id |-> "customer_id",
                     product_sku |-> "product_sku",
                     coupon_status |-> "coupon_status"],
     date_column |-> "transaction_date"]

fct_customer_segments_semantic ==
    [table |-> "fct_customer_segments",
     metrics |-> [total_customers |-> "COUNT(DISTINCT customer_id)",
                  avg_revenue_per_customer |-> "AVG(total_revenue)",
                  avg_order_count |-> "AVG(total_orders)",
                  avg_days_since_purchase |-> "AVG(days_since_last_purchase)",
                  customer_profitability |-> "AVG(total_revenue)",
                  total_customer_revenue |-> "SUM(total_revenue)"],
     dimensions |-> [segment_name |-> "segment_name",
                     segment_id |-> "segment_id",
                     activity_status |-> "activity_status",
                     location |-> "location",
                     gender |-> "gender",
                     customer_tenure_months |-> "customer_tenure_months"],
     date_column |-> "updated_at"]

\* dim_products has no date_column key
dim_products_semantic ==
    [table |-> "dim_products",
     metrics |-> [product_count |-> "COUNT(DISTINCT product_sku)",
                  avg_gst_rate |-> "AVG(gst_rate)"],
     dimensions |-> [product_group |-> "product_group",
                     product_category |-> "product_category",
                     product_sku |-> "product_sku",
                     product_description |-> "product_description"],
     date_column |-> "None"]

stg_bitcoin_semantic ==
    [table |-> "dbt_skamra_streaming.stg_bitcoin",
     metrics |-> [avg_price |-> "AVG(price)",
                  max_price |-> "MAX(price)",
                  min_price |-> "MIN(price)",
                  current_price |-> "price",
                  price_volatility |-> "STDDEV(change_24h)",
                  price_records |-> "COUNT(*)",
                  avg_change |-> "AVG(change_24h)",
                  max_change |-> "MAX(change_24h)",
                  min_change |-> "MIN(change_24h)"],
     dimensions |-> [volatility_category |-> "volatility_category",
                     price_date |-> "price_date",
                     price_hour |-> "price_hour",
                     day_of_week |-> "day_of_week",
                     source |-> "source",
                     date |-> "price_date",
                     hour |-> "price_hour"],
     date_column |-> "event_timestamp"]

SEMANTIC_MODELS ==
    [fct_sales |-> fct_sales_semantic,
     fct_customer_segments |-> fct_customer_segments_semantic,
     dim_products |-> dim_products_semantic,
     stg_bitcoin |-> stg_bitcoin_semantic]

\* Python truth of an optional string argument: None and "" are false
truthy(x) == x # "None" /\ x # ""

\* dict.get(key): the value, or None
dict_get(d, key) == IF key \in DOMAIN d THEN d[key] ELSE "None"

\* an error message that lists the metric names of every registered table
available_metrics_all(model) ==
    UNION {DOMAIN SEMANTIC_MODELS[t].metrics : t \in DOMAIN SEMANTIC_MODELS}

\* list(semantic_model["metrics"].keys())
available_metrics(model) == DOMAIN model.metrics

\* one conjunct of the WHERE clause
Clause(kind, column, value, value2) ==
    [kind |-> kind, column |-> column, value |-> value, value2 |-> value2]

\* a date part that lets the month win over a complete range
sales_date_clauses_month_first(date_column, start_date, end_date, month) ==
    IF truthy(month)
    THEN <<Clause("to_char_month", date_column, month, "None")>>
    ELSE IF truthy(start_date) /\ truthy(end_date)
    THEN <<Clause("between", date_column, start_date, end_date)>>
    ELSE <<>>

\* build_sales_query: the date part of where_clauses (if / elif)
sales_date_clauses(date_column, start_date, end_date, month) ==
    IF truthy(start_date) /\ truthy(end_date)
    THEN <<Clause("between", date_column, start_date, end_date)>>
    ELSE IF truthy(month)
    THEN <<Clause("to_char_month", date_column, month, "None")>>
    ELSE <<>>

\* build_generic_query: the date part of where_clauses
generic_date_clauses(model, start_date, end_date) ==
    IF model.date_column # "None" /\ truthy(start_date) /\ truthy(end_date)
    THEN <<Clause("between", model.date_column, start_date, end_date)>>
    ELSE <<>>

\* the loop over filters.items(): one conjunct per item, in the dict's order;
\* an item is <<column, kind of value, value>>
filter_clauses(filters) ==
    [i \in 1..Len(filters) |->
        Clause(CASE filters[i][2] = "str" -> "equals_quoted"
                 [] filters[i][2] = "list" -> "in_list"
                 [] OTHER -> "equals_raw",
               filters[i][1], filters[i][3], "None")]

\* the returned error text
ErrorText(what, name, table_name, listed) ==
    [head |-> "Error:", what |-> what, name |-> name, table_name |-> table_name,
     listed |-> listed]

\* the returned SQL text: the non-empty parts joined by newlines
SqlText(select_parts, table, where_clauses, group_expr, limit) ==
    [head |-> "SELECT", select_parts |-> select_parts, table |-> table,
     where_clauses |-> where_clauses,
     group_clause |-> group_expr, order_clause |-> group_expr,
     limit_clause |-> limit]

\* group_expr and the SELECT list common to both builders
group_expr_of(model, group_by) ==
    IF truthy(group_by)
    THEN (IF group_by \in DOMAIN model.dimensions THEN model.dimensions[group_by]
          ELSE group_by)
    ELSE "None"

select_parts_of(model, metric, group_by) ==
    (IF truthy(group_by) /\ truthy(group_expr_of(model, group_by))
     THEN <<<<group_expr_of(model, group_by), group_by>>>> ELSE <<>>)
    \o <<<<dict_get(model.metrics, metric), metric>>>>

build_sales_query(metric, group_by, start_date, end_date, month, filters) ==
    LET semantic_model == fct_sales_semantic
    IN  IF ~truthy(dict_get(semantic_model.metrics, metric))
        THEN ErrorText("metric", metric, "None", available_metrics(semantic_model))
        ELSE SqlText(select_parts_of(semantic_model, metric, group_by),
                     semantic_model.table,
                     sales_date_clauses(semantic_model.date_column, start_date,
                                        end_date, month)
                        \o filter_clauses(filters),
                     group_expr_of(semantic_model, group_by), "None")

build_generic_query(table_name, metric, group_by, start_date, end_date, filters, limit) ==
    IF table_name \notin DOMAIN SEMANTIC_MODELS
    THEN ErrorText("table", table_name, table_name, DOMAIN SEMANTIC_MODELS)
    ELSE LET semantic_model == SEMANTIC_MODELS[table_name]
         IN  IF ~truthy(dict_get(semantic_model.metrics, metric))
             THEN ErrorText("metric", metric, table_name,
                            available_metrics(semantic_model))
             ELSE SqlText(select_parts_of(semantic_model, metric, group_by),
                          semantic_model.table,
                          generic_date_clauses(semantic_model, start_date, end_date)
                             \o filter_clauses(filters),
                          group_expr_of(semantic_model, group_by),
                          IF truthy(limit) THEN limit ELSE "None")

\* the arguments of one builder call
BuilderArgs(table_name, metric, group_by, start_date, end_date, month, filters, limit) ==
    [table_name |-> table_name, metric |-> metric, group_by |-> group_by,
     start_date |-> start_date, end_date |-> end_date, month |-> month,
     filters |-> filters, limit |-> limit]

\* every registered metric name, an alias, an unregistered name, no name
MetricNames ==
    available_metrics_all(SEMANTIC_MODELS) \cup {"price", "unknown_metric", ""}
TableNames == DOMAIN SEMANTIC_MODELS \cup {"unknown_table"}
FilterInputs ==
    {<<>>,
     <<<<"coupon_status", "str", "Used">>>>,
     <<<<"product_sku", "list", "A,B">>, <<"quantity", "number", "5">>>>}

\* every table with every metric name, no other argument
ProbeRequests ==
    {BuilderArgs(t, m, "None", "None", "None", "None", <<>>, "None") :
        t \in TableNames, m \in MetricNames}

\* a table with and one without a date column, with every combination of the
\* optional arguments
OptionRequests ==
    {BuilderArgs(t, m, g, s, e, mo, f, l) :
        t \in {"fct_sales", "dim_products"},
        m \in {"total_revenue", "product_count", "unknown_metric"},
        g \in {"None", "month", "raw_column"},
        s \in {"None", "", "2019-01-01"},
        e \in {"None", "2019-03-31"},
        mo \in {"None", "", "2019-02"},
        f \in FilterInputs,
        l \in {"None", "10"}}

NoQuery == [builder |-> "none", out |-> [head |-> "none"]]

BuilderInit ==
    /\ sql_request \in ProbeRequests \cup OptionRequests
    /\ sql_query = NoQuery

BuilderOff ==
    /\ sql_request = BuilderArgs("None", "None", "None", "None", "None", "None", <<>>, "None")
    /\ sql_query = NoQuery

\* build_sales_query with the call's arguments (it takes no table and no limit)
BuildSalesQuery ==
    /\ sql_query = NoQuery
    /\ sql_query' = [builder |-> "build_sales_query",
                     out |-> build_sales_query(sql_request.metric, sql_request.group_by,
                                               sql_request.start_date, sql_request.end_date,
                                               sql_request.month, sql_request.filters)]
    /\ UNCHANGED sql_request
    /\ UNCHANGED notBuilderVars

\* build_generic_query with the call's arguments (it takes no month)
BuildGenericQuery ==
    /\ sql_query = NoQuery
    /\ sql_query' = [builder |-> "build_generic_query",
                     out |-> build_generic_query(sql_request.table_name, sql_request.metric,
                                                 sql_request.group_by, sql_request.start_date,
                                                 sql_request.end_date, sql_request.filters,
                                                 sql_request.limit)]
    /\ UNCHANGED sql_request
    /\ UNCHANGED notBuilderVars

(***************************************************************************)
(* Warehouse-sink consumer                                                 *)
(***************************************************************************)
MaxPolls == 3        \* polls of the warehouse-sink consumer in one behaviour

\* the keys of the JSON objects on the wire
BitcoinKeys == {"source", "price", "change_24h", "timestamp"}
NewsBasicKeys == {"source", "headline", "source_name", "published_at", "timestamp"}
NewsEnhancedKeys ==
    NewsBasicKeys \cup {"description", "category", "url", "word_count",
                        "has_crypto_mention"}

\* the named parameters of the two INSERT statements
BitcoinInsertParams == {"source", "price", "change_24h", "timestamp"}
NewsInsertParams ==
    {"source", "headline", "description", "category", "source_name", "url",
     "published_at", "word_count", "has_crypto_mention", "timestamp"}

\* a message value: bytes that are not JSON, or a JSON object with some keys
Payload(json_ok, keys) == [json_ok |-> json_ok, keys |-> keys]
Payloads ==
    {Payload(FALSE, {})} \cup
    {Payload(TRUE, k) : k \in {BitcoinKeys, NewsBasicKeys, NewsEnhancedKeys}}
SinkTopics == {"bitcoin", "news", "other"}

\* cursor.execute(sql, data) with named parameters: binding needs every
\* parameter of the statement among the keys of data; the number of rows
\* written
execute_insert(params, keys, db_ok) ==
    IF params \subseteq keys /\ db_ok THEN 1 ELSE 0

\* insert_bitcoin_data and insert_news_data: one execute, any error logged
insert_bitcoin_data(keys, db_ok) ==
    [table |-> "bitcoin_prices_raw", executes |-> 1,
     rows |-> execute_insert(BitcoinInsertParams, keys, db_ok), raised |-> FALSE]

insert_news_data(keys, db_ok) ==
    [table |-> "news_events_raw", executes |-> 1,
     rows |-> execute_insert(NewsInsertParams, keys, db_ok), raised |-> FALSE]

NoInsert == [table |-> "none", executes |-> 0, rows |-> 0, raised |-> FALSE]

\* a process_message that lets the JSON error of a malformed value out
process_message_propagates(topic, payload, db_ok) ==
    IF ~payload.json_ok THEN [NoInsert EXCEPT !.raised = TRUE]
    ELSE IF topic = "bitcoin" THEN insert_bitcoin_data(payload.keys, db_ok)
    ELSE IF topic = "news" THEN insert_news_data(payload.keys, db_ok)
    ELSE NoInsert

\* process_message: parse, route by topic, swallow every error; raised tells
\* whether an exception leaves the method
process_message(topic, payload, db_ok) ==
    IF ~payload.json_ok THEN NoInsert
    ELSE IF topic = "bitcoin" THEN insert_bitcoin_data(payload.keys, db_ok)
    ELSE IF topic = "news" THEN insert_news_data(payload.keys, db_ok)
    ELSE NoInsert

NoMessage == [event |-> "none", topic |-> "none", payload |-> Payload(FALSE, {}),
              db_ok |-> FALSE, insert |-> NoInsert]

SinkInit ==
    /\ sink_pc = "start"
    /\ sink_consumer = "created"
    /\ snowflake_conn = "None"
    /\ raw_rows = [bitcoin_prices_raw |-> 0, news_events_raw |-> 0]
    /\ last_message = NoMessage
    /\ sink_polls = 0

SinkOff ==
    /\ sink_pc = "off"
    /\ sink_consumer = "created"
    /\ snowflake_conn = "None"
    /\ raw_rows = [bitcoin_prices_raw |-> 0, news_events_raw |-> 0]
    /\ last_message = NoMessage
    /\ sink_polls = 0

\* the finally clause of run(): consumer.close(), then the warehouse
\* connection's close() if a connection was opened; an exception raised by
\* consumer.close() leaves the clause before the second close
SinkShutdown(conn, close_raises) ==
    /\ sink_pc' = "stopped"
    /\ sink_consumer' = IF close_raises THEN "close_raised" ELSE "closed"
    /\ snowflake_conn' = IF conn = "open" /\ ~close_raises THEN "closed" ELSE conn

\* run() up to the loop: connect_snowflake, create_tables, subscribe; a
\* failure is caught by run() and ends it through the finally clause
SinkStartup(outcome, close_raises) ==
    /\ sink_pc = "start"
    /\ IF outcome = "ok"
       THEN /\ sink_pc' = "polling"
            /\ sink_consumer' = "subscribed"
            /\ snowflake_conn' = "open"
       ELSE SinkShutdown(IF outcome = "connect_fails" THEN "None" ELSE "open",
                         close_raises)
    /\ UNCHANGED <<raw_rows, last_message, sink_polls>>
    /\ UNCHANGED notSinkVars

\* one pass of the loop: poll; nothing, an error event, or a message that is
\* processed; an exception leaving process_message would be caught by run(),
\* which ends through the finally clause
SinkPoll(event, topic, payload, db_ok) ==
    /\ sink_pc = "polling"
    /\ sink_polls < MaxPolls
    /\ sink_polls' = sink_polls + 1
    /\ LET ins == IF event = "message" THEN process_message(topic, payload, db_ok)
                  ELSE NoInsert
       IN  /\ last_message' = [event |-> event, topic |-> topic, payload |-> payload,
                               db_ok |-> db_ok, insert |-> ins]
           /\ raw_rows' = IF ins.rows > 0
                          THEN [raw_rows EXCEPT ![ins.table] = @ + ins.rows]
                          ELSE raw_rows
           /\ IF ins.raised
              THEN \E close_raises \in BOOLEAN :
                      SinkShutdown(snowflake_conn, close_raises)
              ELSE UNCHANGED <<sink_pc, sink_consumer, snowflake_conn>>
    /\ UNCHANGED notSinkVars

\* KeyboardInterrupt, or an exception raised by poll(): caught by run(), which
\* ends through the finally clause
SinkStop(cause, close_raises) ==
    /\ sink_pc = "polling"
    /\ SinkShutdown(snowflake_conn, close_raises)
    /\ last_message' = [NoMessage EXCEPT !.event = cause]
    /\ UNCHANGED <<raw_rows, sink_polls>>
    /\ UNCHANGED notSinkVars

(***************************************************************************)
(* RAG QA chain and the service's ask_question                             *)
(***************************************************************************)
MaxChainCalls == 3   \* calls on the RAG service's QA chain in one behaviour

RetrievalK == 4                  \* RAGService(retrieval_k=4)
FanOuts == {4, 10}               \* values of k a caller may ask for
Questions == {"q1", "q2"}
Namespaces == {"", "ns1"}
AnswerTo == [q1 |-> "a1", q2 |-> "a2"]

\* a RAGQAChain: which object it is, the messages of its
\* ConversationBufferMemory and the k of its retriever's search_kwargs
QaChain(id, mem, k) == [id |-> id, memory |-> mem, k |-> k]

\* RAGService.qa_chain, the chain the service keeps
PersistentChain == QaChain("self.qa_chain", chat_memory, search_kwargs)

\* create_qa_chain: a new chain with a new, empty memory
create_qa_chain(k) == QaChain("created", <<>>, k)

\* RAGQAChain.ask_question: the RetrievalQA chain, which has no memory
chain_ask_question(chain, question, chain_ok) ==
    [chain |-> chain, seen |-> <<>>, ok |-> chain_ok]

\* RAGQAChain.ask_conversational: the ConversationalRetrievalChain reads the
\* chain's memory and, when it succeeds, saves the question and the answer
chain_ask_conversational(chain, question, chain_ok) ==
    [chain |-> IF chain_ok
               THEN QaChain(chain.id, chain.memory \o
                               <<[type |-> "human", content |-> question],
                                 [type |-> "ai", content |-> AnswerTo[question]]>>,
                            chain.k)
               ELSE chain,
     seen |-> chain.memory, ok |-> chain_ok]

\* RAGQAChain.get_conversation_history: the messages taken two by two
get_conversation_history(mem) ==
    [j \in 1..(Len(mem) \div 2) |->
        [question |-> mem[2 * j - 1].content, answer |-> mem[2 * j].content]]

\* a service that answers every question through its persistent chain
chain_for_call_persistent(persistent, namespace) == persistent

\* RAGService.ask_question: the chain that answers the call
chain_for_call(persistent, namespace) ==
    IF namespace # "" THEN create_qa_chain(RetrievalK) ELSE persistent

\* RAGService.ask_question: the chain of the call answers; the service keeps
\* its own chain, which is the chain of the call only without a namespace
service_ask_question(persistent, question, namespace, conversational, chain_ok) ==
    LET qa_chain == chain_for_call(persistent, namespace)
        r == IF conversational
             THEN chain_ask_conversational(qa_chain, question, chain_ok)
             ELSE chain_ask_question(qa_chain, question, chain_ok)
    IN  [persistent |-> IF qa_chain.id = persistent.id THEN r.chain ELSE persistent,
         seen |-> r.seen, ok |-> r.ok]

\* RAGQAChain.get_relevant_documents: set k, retrieve, set k back; an
\* exception in the retriever goes to the except branch, past the restore
get_relevant_documents(chain, k, retriever_raises) ==
    LET original_k == chain.k
    IN  IF retriever_raises
        THEN [chain |-> QaChain(chain.id, chain.memory, k), docs |-> "[]", ok |-> FALSE]
        ELSE [chain |-> QaChain(chain.id, chain.memory, original_k), docs |-> "docs", ok |-> TRUE]

NoChainResult == [op |-> "none", question |-> "none", namespace |-> "",
                  conversational |-> FALSE, k |-> 0, ok |-> FALSE, seen |-> <<>>]

ChainInit ==
    /\ search_kwargs = RetrievalK
    /\ chat_memory = <<>>
    /\ chain_result = NoChainResult
    /\ chain_calls = 0

ChainOff ==
    /\ search_kwargs = 0
    /\ chat_memory = <<>>
    /\ chain_result = NoChainResult
    /\ chain_calls = 0

\* bookkeeping of one call
ChainCall(res) ==
    /\ chain_calls < MaxChainCalls
    /\ chain_calls' = chain_calls + 1
    /\ chain_result' = res
    /\ UNCHANGED notChainVars

\* RAGService.ask_question
ServiceAskQuestion(question, namespace, conversational, chain_ok) ==
    LET r == service_ask_question(PersistentChain, question,
                                  namespace, conversational, chain_ok)
    IN  /\ ChainCall([NoChainResult EXCEPT !.op = "ask_question",
                         !.question = question, !.namespace = namespace,
                         !.conversational = conversational, !.ok = r.ok,
                         !.seen = r.seen])
        /\ chat_memory' = r.persistent.memory
        /\ search_kwargs' = r.persistent.k

\* RAGQAChain.get_relevant_documents on the service's chain
GetRelevantDocuments(question, k, retriever_raises) ==
    LET r == get_relevant_documents(PersistentChain, k, retriever_raises)
    IN  /\ ChainCall([NoChainResult EXCEPT !.op = "get_relevant_documents",
                         !.question = question, !.k = k, !.ok = r.ok])
        /\ chat_memory' = r.chain.memory
        /\ search_kwargs' = r.chain.k

\* RAGService.clear_conversation_history
ClearChainHistory ==
    /\ ChainCall([NoChainResult EXCEPT !.op = "clear_conversation_history", !.ok = TRUE])
    /\ chat_memory' = <<>>
    /\ UNCHANGED search_kwargs

(***************************************************************************)
(* Console consumer (kafka_streaming/consumer_console.py)                   *)
(***************************************************************************)
MaxEmptyPolls == 31    \* polls that return no message in one behaviour
MaxConsoleEvents == 2  \* polls that return a message or an event

StatsEvery == 30                    \* if stats_counter >= 30
ConsoleTopics == {"bitcoin", "news"}
\* what a message's value is: a JSON object, a JSON array, or not JSON
ConsoleValues == {"object", "array", "invalid"}

\* a summary that waits for one more empty poll
stats_due_late(counter) == counter > StatsEvery

\* run: the test on the idle counter after an empty poll
stats_due(counter) == counter >= StatsEvery

\* a process_message that counts a message once it has been displayed
console_process_message_late(counts, topic, value) ==
    IF value = "object"
    THEN [counts EXCEPT ![topic] = @ + 1, !.total = @ + 1]
    ELSE counts

\* process_message: json.loads raises before the counters for a value that is
\* not JSON; for any parsed value the topic's counter and the total are
\* incremented before the formatting, whose errors are swallowed
console_process_message(counts, topic, value) ==
    IF value = "invalid"
    THEN counts
    ELSE [counts EXCEPT ![topic] = @ + 1, !.total = @ + 1]

\* console_polls counts the polls: those that returned nothing, those that
\* returned a message or an event, and the messages whose value was JSON
\* idle_polls records what the console shows: the empty polls since the last
\* summary printed in the loop or the last message handed to process_message
NoConsoleEvent == [event |-> "none", topic |-> "none", value |-> "none"]

ConsoleInit ==
    /\ console_pc = "running"
    /\ stats_counter = 0
    /\ message_counts = [bitcoin |-> 0, news |-> 0, total |-> 0]
    /\ printed = [loop |-> 0, shutdown |-> 0]
    /\ console_event = NoConsoleEvent
    /\ console_polls = [empty |-> 0, other |-> 0, parsed |-> 0]
    /\ idle_polls = 0

ConsoleOff ==
    /\ console_pc = "off"
    /\ stats_counter = 0
    /\ message_counts = [bitcoin |-> 0, news |-> 0, total |-> 0]
    /\ printed = [loop |-> 0, shutdown |-> 0]
    /\ console_event = NoConsoleEvent
    /\ console_polls = [empty |-> 0, other |-> 0, parsed |-> 0]
    /\ idle_polls = 0

\* run: poll returns None
ConsolePollEmpty ==
    /\ console_pc = "running"
    /\ console_polls.empty < MaxEmptyPolls
    /\ console_polls' = [console_polls EXCEPT !.empty = @ + 1]
    /\ console_event' = [NoConsoleEvent EXCEPT !.event = "empty"]
    /\ LET counter == stats_counter + 1
       IN  IF stats_due(counter)
           THEN /\ printed' = [printed EXCEPT !.loop = @ + 1]
                /\ stats_counter' = 0
           ELSE /\ printed' = printed
                /\ stats_counter' = counter
    /\ idle_polls' = IF printed'.loop # printed.loop THEN 0 ELSE idle_polls + 1
    /\ UNCHANGED <<console_pc, message_counts>>
    /\ UNCHANGED notConsoleVars

\* run: poll returns an error event (partition end or broker error), logged
ConsolePollError(event) ==
    /\ console_pc = "running"
    /\ event \in {"partition_eof", "error"}
    /\ console_polls.other < MaxConsoleEvents
    /\ console_polls' = [console_polls EXCEPT !.other = @ + 1]
    /\ console_event' = [NoConsoleEvent EXCEPT !.event = event]
    /\ UNCHANGED <<console_pc, stats_counter, message_counts, printed, idle_polls>>
    /\ UNCHANGED notConsoleVars

\* run: poll returns a message; process_message, then the counter is reset
ConsolePollMessage(topic, value) ==
    /\ console_pc = "running"
    /\ console_polls.other < MaxConsoleEvents
    /\ console_polls' = [console_polls EXCEPT !.other = @ + 1,
                            !.parsed = IF value = "invalid" THEN @ ELSE @ + 1]
    /\ console_event' = [event |-> "message", topic |-> topic, value |-> value]
    /\ message_counts' = console_process_message(message_counts, topic, value)
    /\ stats_counter' = 0
    /\ idle_polls' = 0
    /\ UNCHANGED <<console_pc, printed>>
    /\ UNCHANGED notConsoleVars

\* run: KeyboardInterrupt prints the summary, any other exception of poll is
\* logged; both leave the loop and close the consumer
ConsoleStop(cause) ==
    /\ console_pc = "running"
    /\ cause \in {"KeyboardInterrupt", "Exception"}
    /\ console_pc' = "stopped"
    /\ console_event' = [NoConsoleEvent EXCEPT !.event = cause]
    /\ printed' = IF cause = "KeyboardInterrupt"
                  THEN [printed EXCEPT !.shutdown = @ + 1]
                  ELSE printed
    /\ UNCHANGED <<stats_counter, message_counts, console_polls, idle_polls>>
    /\ UNCHANGED notConsoleVars

(***************************************************************************)
(* Standalone RAG UI: the "Delete All Documents" button                    *)
(***************************************************************************)
MaxUiEvents == 6   \* interactions with the page in one behaviour

\* the other buttons of the page
OtherWidgets == {"process_pdfs", "get_answer", "refresh_stats"}

\* what rag_service.delete_documents(delete_all=True) does in a script run
DeleteOutcomes == {"success", "failure", "raises"}

\* a click handler that leaves the flag set after a successful deletion
after_delete_click_keep(armed, outcome) ==
    IF armed
    THEN [executed |-> TRUE, confirm_delete |-> TRUE,
          deleted |-> outcome = "success"]
    ELSE [executed |-> FALSE, confirm_delete |-> TRUE, deleted |-> FALSE]

\* main: the body of `if st.button("Delete All Documents")`; armed is
\* st.session_state.get("confirm_delete", False)
after_delete_click(armed, outcome) ==
    IF armed
    THEN [executed |-> TRUE,
          confirm_delete |-> IF outcome = "success" THEN FALSE ELSE armed,
          deleted |-> outcome = "success"]
    ELSE [executed |-> FALSE, confirm_delete |-> TRUE, deleted |-> FALSE]

NoUiEvent == [widget |-> "none", armed |-> FALSE, executed |-> FALSE, deleted |-> FALSE]

UiInit ==
    /\ confirm_delete = FALSE
    /\ ui_vectors = 0
    /\ ui_event = NoUiEvent
    /\ ui_counts = [events |-> 0, armings |-> 0, deletions |-> 0]

UiOff ==
    /\ confirm_delete = FALSE
    /\ ui_vectors = 0
    /\ ui_event = NoUiEvent
    /\ ui_counts = [events |-> 0, armings |-> 0, deletions |-> 0]

\* a script run in which the "Delete All Documents" button returns True
ClickDeleteAll(outcome) ==
    /\ ui_counts.events < MaxUiEvents
    /\ LET r == after_delete_click(confirm_delete, outcome)
       IN  /\ confirm_delete' = r.confirm_delete
           /\ ui_vectors' = IF r.deleted THEN 0 ELSE ui_vectors
           /\ ui_event' = [widget |-> "delete_all", armed |-> confirm_delete,
                           executed |-> r.executed, deleted |-> r.deleted]
           /\ ui_counts' = [events |-> ui_counts.events + 1,
                            armings |-> ui_counts.armings +
                                        (IF r.executed THEN 0 ELSE 1),
                            deletions |-> ui_counts.deletions +
                                          (IF r.deleted THEN 1 ELSE 0)]
    /\ UNCHANGED notUiVars

\* a script run caused by another widget: session state is kept; processing
\* the uploaded PDFs adds vectors to the index
OtherWidget(widget) ==
    /\ ui_counts.events < MaxUiEvents
    /\ widget \in OtherWidgets
    /\ ui_vectors' = IF widget = "process_pdfs" THEN 1 ELSE ui_vectors
    /\ ui_event' = [NoUiEvent EXCEPT !.widget = widget, !.armed = confirm_delete]
    /\ ui_counts' = [ui_counts EXCEPT !.events = @ + 1]
    /\ UNCHANGED confirm_delete
    /\ UNCHANGED notUiVars

(***************************************************************************)
(* Integrated chatbot: the answer of a document query                      *)
(***************************************************************************)
MaxSources == 4   \* sources in the response of the RAG service

\* the "source" of a retrieved chunk: the document it comes from
SourceNames == {"a.pdf", "b.pdf", "Unknown"}

RECURSIVE SeqsUpTo(_, _)
\* the sequences over S of length up to n
SeqsUpTo(S, n) ==
    IF n = 0 THEN {<<>>}
    ELSE LET shorter == SeqsUpTo(S, n - 1)
         IN  shorter \cup {Append(q, x) : q \in {p \in shorter : Len(p) = n - 1}, x \in S}

\* sources[:3]
top3(sources) == SubSeq(sources, 1, IF Len(sources) < 3 THEN Len(sources) ELSE 3)

\* process_document_query: the answer, then, when there are sources, the
\* "Sources" header and one numbered line per source among the first three
process_document_query(sources) ==
    [answer |-> "answer",
     header |-> sources # <<>>,
     entries |-> IF sources # <<>> THEN top3(sources) ELSE <<>>]

NoAnswer == [answer |-> "none", header |-> FALSE, entries |-> <<>>]

ChatInit ==
    /\ chat_pc = "asked"
    /\ chat_sources \in SeqsUpTo(SourceNames, MaxSources)
    /\ chat_answer = NoAnswer

ChatOff ==
    /\ chat_pc = "off"
    /\ chat_sources = <<>>
    /\ chat_answer = NoAnswer

\* process_document_query on the response of ask_question
ProcessDocumentQuery ==
    /\ chat_pc = "asked"
    /\ chat_pc' = "answered"
    /\ chat_answer' = process_document_query(chat_sources)
    /\ UNCHANGED chat_sources
    /\ UNCHANGED notChatVars

(***************************************************************************)
(* PDF processor                                                           *)
(***************************************************************************)
MaxPages == 3   \* pages of the PDF

\* what page.extract_text() returns: "", whitespace only, or real text
PageTexts == {"empty", "whitespace", "text"}
\* the file at pdf_path
PdfFiles == {"readable", "missing", "unreadable"}

\* a text is a sequence of pieces; the pieces that are whitespace
IsSpace(piece) == piece \in {"whitespace", "newline"}

RECURSIVE extract_pages(_, _)
\* extract_text_from_pdf, the loop over the pages from page number n: a page
\* whose text is not "" adds "\n--- Page n ---\n", the text and "\n"
extract_pages(pages, n) ==
    IF n > Len(pages) THEN <<>>
    ELSE (IF pages[n] # "empty"
          THEN <<"newline", "page_marker", "newline", pages[n], "newline">>
          ELSE <<>>) \o extract_pages(pages, n + 1)

\* extract_text_from_pdf: FileNotFoundError for a missing file, Exception
\* for a file the reader cannot read, else the text of the pages
extract_text_from_pdf(file, pages) ==
    IF file # "readable" THEN [raised |-> TRUE, text |-> <<>>]
    ELSE [raised |-> FALSE, text |-> extract_pages(pages, 1)]

\* text.strip(): the text without its leading and trailing whitespace; what
\* process_pdf tests is whether anything is left
strip_is_empty(text) == \A i \in 1..Len(text) : IsSpace(text[i])

\* chunk_text: the splitter's chunks of the text; a text of the model is
\* shorter than chunk_size, so it is one chunk, stripped, or none if blank
chunk_text(text) ==
    IF strip_is_empty(text) THEN <<>>
    ELSE <<SelectSeq(text, LAMBDA piece : ~IsSpace(piece))>>

\* process_pdf: extract, raise when the stripped text is empty, else chunk
process_pdf(file, pages) ==
    LET e == extract_text_from_pdf(file, pages)
    IN  IF e.raised \/ strip_is_empty(e.text)
        THEN [raised |-> TRUE, documents |-> <<>>]
        ELSE [raised |-> FALSE, documents |-> chunk_text(e.text)]

PdfInit ==
    /\ pdf_pc = "called"
    /\ pdf_file \in PdfFiles
    /\ pdf_pages \in SeqsUpTo(PageTexts, MaxPages)
    /\ pdf_result = [raised |-> FALSE, documents |-> <<>>]

PdfOff ==
    /\ pdf_pc = "off"
    /\ pdf_file = "missing"
    /\ pdf_pages = <<>>
    /\ pdf_result = [raised |-> FALSE, documents |-> <<>>]

\* PDFProcessor.process_pdf(pdf_path)
ProcessPdf ==
    /\ pdf_pc = "called"
    /\ pdf_pc' = "done"
    /\ pdf_result' = process_pdf(pdf_file, pdf_pages)
    /\ UNCHANGED <<pdf_file, pdf_pages>>
    /\ UNCHANGED notPdfVars

(***************************************************************************)
(* Sales simulator (streaming_simulation/streamlit_sales_generator.py)     *)
(***************************************************************************)
MaxRenders == 3   \* script runs after the first one in one behaviour

\* the slider "Transactions per batch" (1 to 10): two of its values
BatchSizes == {1, 2}
\* generate_transaction: quantity is 1..5 and avg_price the product's price
\* within 10%; two quantities and two prices, the prices in cents
Transactions == [quantity : {1, 5}, avg_price : {1439, 27499}]

RECURSIVE batch_revenue(_)
\* the sum over the batch of quantity * avg_price, as the loop adds it
batch_revenue(batch) ==
    IF batch = <<>> THEN 0
    ELSE batch[1].quantity * batch[1].avg_price + batch_revenue(Tail(batch))

\* the batches of n transactions
Batches(n) == {b \in SeqsUpTo(Transactions, n) : Len(b) = n}

\* one run of the script, top to bottom, with the toggle at g when it starts
\* and the button `click` pressed: each button is drawn with the toggle as it
\* is when its line runs, and its handler changes the toggle after that
script_run(g, click) ==
    LET after_start == IF click = "start" THEN TRUE ELSE g
        after_stop == IF click = "stop" THEN FALSE ELSE after_start
    IN  [start_enabled |-> ~g,
         stop_enabled |-> after_start,
         generating |-> after_stop]

NoSimEvent == [click |-> "none", per_batch |-> 0, batch |-> <<>>, generated |-> FALSE]

\* the page after the first run of the script in a session
SimInit ==
    /\ generating = FALSE
    /\ start_enabled = TRUE
    /\ stop_enabled = FALSE
    /\ total_transactions = 0
    /\ total_revenue = 0
    /\ sim_event = NoSimEvent
    /\ sim_renders = 0

SimOff ==
    /\ generating = FALSE
    /\ start_enabled = FALSE
    /\ stop_enabled = FALSE
    /\ total_transactions = 0
    /\ total_revenue = 0
    /\ sim_event = NoSimEvent
    /\ sim_renders = 0

\* a run of the script: caused by a click on a button the page shows enabled,
\* or by the rerun at the end of a batch or a move of a slider (click "none");
\* with the toggle on at line 90 the batch is generated and counted
Render(click, per_batch, batch) ==
    /\ sim_renders < MaxRenders
    /\ click = "start" => start_enabled
    /\ click = "stop" => stop_enabled
    /\ LET r == script_run(generating, click)
       IN  /\ start_enabled' = r.start_enabled
           /\ stop_enabled' = r.stop_enabled
           /\ generating' = r.generating
           /\ batch \in (IF r.generating THEN Batches(per_batch) ELSE {<<>>})
           /\ total_transactions' = total_transactions + Len(batch)
           /\ total_revenue' = total_revenue + batch_revenue(batch)
           /\ sim_event' = [click |-> click, per_batch |-> per_batch,
                            batch |-> batch, generated |-> r.generating]
    /\ sim_renders' = sim_renders + 1
    /\ UNCHANGED notSimVars

(***************************************************************************)
(* Specifications                                                          *)
(***************************************************************************)
\* the added programs at rest
ExtOff == MemoryOff /\ BuilderOff /\ SinkOff /\ ChainOff /\ ConsoleOff /\ UiOff /\ ChatOff /\ PdfOff /\ SimOff

CoreOff == AgentOff /\ ToolsOff /\ ProducerOff /\ IngestionOff /\ RagOff

Init == AgentInit /\ ToolsOff /\ ProducerOff /\ IngestionOff /\ RagOff /\ ExtOff

\* Spec: the agent over several sessions; the LLM's answers are plain text
Next ==
    \/ \E sid \in CallerIds \cup {NoSession}, clear \in BOOLEAN, load_raises \in BOOLEAN :
          StartCall(sid, clear, load_raises)
    \/ \E llm_raises \in BOOLEAN, ntc \in ToolCallCounts :
          \E content \in (IF ntc = 0 THEN {"answer"} ELSE {"empty"}) :
             AgentStep(llm_raises, content, ntc)
    \/ ToolsStep
    \/ \E save_raises \in BOOLEAN : FinishCall(save_raises)

Spec == Init /\ [][Next]_vars

\* SpecAnswer: the agent in one caller session; a response with tool calls
\* has empty content, a response without has any other kind of content
NextAnswer ==
    \/ \E clear \in BOOLEAN, load_raises \in BOOLEAN :
          StartCall("s1", clear, load_raises)
    \/ \E llm_raises \in BOOLEAN, ntc \in ToolCallCounts :
          \E content \in (IF ntc = 0 THEN Contents \ {"empty"} ELSE {"empty"}) :
             AgentStep(llm_raises, content, ntc)
    \/ ToolsStep
    \/ \E save_raises \in BOOLEAN : FinishCall(save_raises)

SpecAnswer == Init /\ [][NextAnswer]_vars

InitTools == AgentOff /\ ToolsInit /\ ProducerOff /\ IngestionOff /\ RagOff /\ ExtOff

NextTools ==
    \/ ConfigChange
    \/ \E metric_ok \in BOOLEAN, filters \in FilterKinds, exec \in ExecOutcomes :
          RunSalesQuery(metric_ok, filters, exec)
    \/ \E table_ok \in BOOLEAN, metric_ok \in BOOLEAN, filters \in FilterKinds,
          exec \in ExecOutcomes :
          RunGenericQuery(table_ok, metric_ok, filters, exec)
    \/ \E conn_ok \in BOOLEAN : TestSnowflakeConnection(conn_ok)

SpecTools == InitTools /\ [][NextTools]_vars

InitProducer == AgentOff /\ ToolsOff /\ ProducerInit /\ IngestionOff /\ RagOff /\ ExtOff

NextProducer ==
    \/ \E btc \in BitcoinOutcomes, news \in NewsOutcomes : Iteration(btc, news)
    \/ Interrupt

SpecProducer == InitProducer /\ [][NextProducer]_vars

InitIngestion == AgentOff /\ ToolsOff /\ ProducerOff /\ IngestionInit /\ RagOff /\ ExtOff

NextIngestion ==
    \/ \E outcome \in {"ok", "connect_fails", "cursor_fails", "version_fails"} :
          ConnectToSnowflake(outcome)
    \/ \E ok \in BOOLEAN : CreateFileFormat(ok)
    \/ \E ok \in BOOLEAN : CreateStage(ok)
    \/ \E ok \in BOOLEAN : CreateTables(ok)
    \/ \E ok \in BOOLEAN : UploadFilesToStage(ok)
    \/ \E ok \in BOOLEAN, rows \in [Tables -> 0..MaxRows] : LoadDataToTables(ok, rows)
    \/ \E count_fails \in SUBSET Tables : ValidateDataLoads(count_fails)
    \/ \E check_fails \in BOOLEAN : RunDataQualityChecks(check_fails)
    \/ \E query_fails \in BOOLEAN : GenerateSummaryReport(query_fails)
    \/ CloseConnection

SpecIngestion == InitIngestion /\ [][NextIngestion]_vars

InitRag == AgentOff /\ ToolsOff /\ ProducerOff /\ IngestionOff /\ RagInit /\ ExtOff

NextRag ==
    \/ Root
    \/ \E call_fails \in BOOLEAN, inner_raises \in BOOLEAN, escapes \in BOOLEAN :
          HealthCheck(call_fails, inner_raises, escapes)
    \/ \E is_pdf \in BOOLEAN, temp \in TempOutcomes, process \in ProcessOutcomes,
          n \in DocCounts, fail_batch \in 0..2, inner_raises \in BOOLEAN,
          escapes \in BOOLEAN :
          UploadPdf(is_pdf, temp, process, n, fail_batch, inner_raises, escapes)
    \/ \E with_namespace \in BOOLEAN, conversational \in BOOLEAN, chain_ok \in BOOLEAN,
          inner_raises \in BOOLEAN, escapes \in BOOLEAN :
          AskQuestion(with_namespace, conversational, chain_ok, inner_raises, escapes)
    \/ \E inner_raises \in BOOLEAN, escapes \in BOOLEAN :
          SearchDocuments(inner_raises, escapes)
    \/ \E inner_raises \in BOOLEAN, escapes \in BOOLEAN :
          GetConversationHistory(inner_raises, escapes)
    \/ \E clear_ok \in BOOLEAN, inner_raises \in BOOLEAN, escapes \in BOOLEAN :
          ClearConversationHistory(clear_ok, inner_raises, escapes)
    \/ \E call_fails \in BOOLEAN, inner_raises \in BOOLEAN, escapes \in BOOLEAN :
          GetIndexStats(call_fails, inner_raises, escapes)
    \/ \E delete_all \in BOOLEAN, delete_ok \in BOOLEAN, inner_raises \in BOOLEAN,
          escapes \in BOOLEAN :
          DeleteDocuments(delete_all, delete_ok, inner_raises, escapes)

SpecRag == InitRag /\ [][NextRag]_vars

InitMemory == CoreOff /\ MemoryInit /\ BuilderOff /\ SinkOff /\ ChainOff /\ ConsoleOff /\ UiOff /\ ChatOff /\ PdfOff /\ SimOff

NextMemory ==
    \/ \E sid \in MemSessions, fails \in BOOLEAN : SaveSession(sid, fails)
    \/ \E sid \in MemSessions, fails \in BOOLEAN : LoadSession(sid, fails)
    \/ \E sid \in MemSessions, fails \in BOOLEAN : DeleteSession(sid, fails)
    \/ \E fails \in BOOLEAN : ListSessions(fails)
    \/ \E query_fails \in BOOLEAN, deleted \in SUBSET MemSessions :
          CleanupOldSessions(query_fails, deleted)

SpecMemory == InitMemory /\ [][NextMemory]_vars

InitBuilder == CoreOff /\ BuilderInit /\ MemoryOff /\ SinkOff /\ ChainOff /\ ConsoleOff /\ UiOff /\ ChatOff /\ PdfOff /\ SimOff

NextBuilder ==
    \/ BuildSalesQuery
    \/ BuildGenericQuery

SpecBuilder == InitBuilder /\ [][NextBuilder]_vars

InitSink == CoreOff /\ SinkInit /\ MemoryOff /\ BuilderOff /\ ChainOff /\ ConsoleOff /\ UiOff /\ ChatOff /\ PdfOff /\ SimOff

NextSink ==
    \/ \E outcome \in {"ok", "connect_fails", "schema_fails", "cursor_fails",
                       "subscribe_fails"}, close_raises \in BOOLEAN :
          SinkStartup(outcome, close_raises)
    \/ \E event \in {"none", "partition_eof", "error"} :
          SinkPoll(event, "none", Payload(FALSE, {}), FALSE)
    \/ \E topic \in SinkTopics, payload \in Payloads, db_ok \in BOOLEAN :
          SinkPoll("message", topic, payload, db_ok)
    \/ \E cause \in {"keyboard_interrupt", "poll_raises"}, close_raises \in BOOLEAN :
          SinkStop(cause, close_raises)

SpecSink == InitSink /\ [][NextSink]_vars

InitChain == CoreOff /\ ChainInit /\ MemoryOff /\ BuilderOff /\ SinkOff /\ ConsoleOff /\ UiOff /\ ChatOff /\ PdfOff /\ SimOff

NextChain ==
    \/ \E question \in Questions, namespace \in Namespaces,
          conversational \in BOOLEAN, chain_ok \in BOOLEAN :
          ServiceAskQuestion(question, namespace, conversational, chain_ok)
    \/ \E question \in Questions, k \in FanOuts, retriever_raises \in BOOLEAN :
          GetRelevantDocuments(question, k, retriever_raises)
    \/ ClearChainHistory

SpecChain == InitChain /\ [][NextChain]_vars

InitConsole == CoreOff /\ ConsoleInit /\ MemoryOff /\ BuilderOff /\ SinkOff /\ ChainOff /\ UiOff /\ ChatOff /\ PdfOff /\ SimOff

NextConsole ==
    \/ ConsolePollEmpty
    \/ \E event \in {"partition_eof", "error"} : ConsolePollError(event)
    \/ \E topic \in ConsoleTopics, value \in ConsoleValues :
          ConsolePollMessage(topic, value)
    \/ \E cause \in {"KeyboardInterrupt", "Exception"} : ConsoleStop(cause)

SpecConsole == InitConsole /\ [][NextConsole]_vars

InitUi == CoreOff /\ UiInit /\ MemoryOff /\ BuilderOff /\ SinkOff /\ ChainOff /\ ConsoleOff /\ ChatOff /\ PdfOff /\ SimOff

NextUi ==
    \/ \E outcome \in DeleteOutcomes : ClickDeleteAll(outcome)
    \/ \E widget \in OtherWidgets : OtherWidget(widget)

SpecUi == InitUi /\ [][NextUi]_vars

InitChat == CoreOff /\ ChatInit /\ MemoryOff /\ BuilderOff /\ SinkOff /\ ChainOff /\ ConsoleOff /\ UiOff /\ PdfOff /\ SimOff

NextChat == ProcessDocumentQuery

SpecChat == InitChat /\ [][NextChat]_vars

InitPdf == CoreOff /\ PdfInit /\ MemoryOff /\ BuilderOff /\ SinkOff /\ ChainOff /\ ConsoleOff /\ UiOff /\ ChatOff /\ SimOff

NextPdf == ProcessPdf

SpecPdf == InitPdf /\ [][NextPdf]_vars

InitSim == CoreOff /\ SimInit /\ MemoryOff /\ BuilderOff /\ SinkOff /\ ChainOff /\ ConsoleOff /\ UiOff /\ ChatOff /\ PdfOff

NextSim ==
    \E click \in {"none", "start", "stop"}, per_batch \in BatchSizes :
       \E batch \in Batches(per_batch) \cup {<<>>} : Render(click, per_batch, batch)

SpecSim == InitSim /\ [][NextSim]_vars

\* SpecUpload: uploads made on the service itself
NextUpload ==
    \E process \in ProcessOutcomes, n \in DocCounts, fail_batch \in 0..2 :
       ServiceUploadPdf(process, n, fail_batch)

SpecUpload == InitRag /\ [][NextUpload]_vars

(***************************************************************************)
(* Claims about the data-extraction agent (checked under Spec)             *)
(***************************************************************************)
NonSystem(seq) == SelectSeq(seq, LAMBDA m : m.type # "system")
IsPrefix(a, b) == Len(a) <= Len(b) /\ SubSeq(b, 1, Len(a)) = a
IsAnswer(m) == m.type = "ai" /\ m.content # "tool_results_prefix"

\* C1: a run starts in node agent; after an agent step the workflow goes to
\* tools if and only if the last message carries tool calls and otherwise
\* ends; after a tools step it always returns to agent; so a run ends only
\* right after an agent step without tool calls, and tools never runs twice
\* in a row.
C1_WorkflowRouting ==
    [][ /\ (pc = "idle" /\ pc' # "idle") => pc' = "agent"
        /\ (pc = "agent" /\ messages' # messages) =>
              /\ pc' \in {"tools", "end"}
              /\ pc' = "tools" <=> last(messages').tool_calls > 0
              /\ pc' = "end" <=> last(messages').tool_calls = 0
        /\ pc = "tools" => pc' = "agent"
        /\ pc' = "end" => pc = "agent" /\ last(messages').tool_calls = 0
        /\ pc' = "tools" => pc = "agent" /\ prev_node' = "agent" ]_vars

\* C1 witness: a run that went through tools and then ended
C1_Witness ==
    /\ pc = "end"
    /\ \E i \in 1..Len(messages) : messages[i].type = "tool" /\ messages[i].call = ncalls

\* C2 as amended: what the LLM is shown in a call with session id S holds
\* only messages of session S; with a checkpointer active it holds every
\* message added to S since S was last cleared (a call with clear_session
\* deletes the thread when the checkpointer offers delete_thread), so earlier
\* calls are recalled up to the last clear; a call without a session id sees
\* nothing but its own messages.
C2_IsolationAndRecall ==
    llm_input # <<>> =>
        /\ \A i \in 1..Len(llm_input) :
              llm_input[i].type # "system" => llm_input[i].sid = session_id
        /\ has_memory =>
              /\ IsPrefix(NonSystem(llm_input), since_clear[session_id])
              /\ \A j \in 1..Len(since_clear[session_id]) :
                    since_clear[session_id][j].call < ncalls =>
                       \E i \in 1..Len(llm_input) : llm_input[i] = since_clear[session_id][j]
        /\ session_id \in UuidPool =>
              \A i \in 1..Len(llm_input) :
                 llm_input[i].type # "system" => llm_input[i].call = ncalls

\* C2 witness: with a checkpointer, the LLM is shown a message of an earlier
\* call of the same session
C2_Witness ==
    /\ has_memory
    /\ \E i \in 1..Len(llm_input) :
          /\ llm_input[i].type = "ai"
          /\ llm_input[i].call < ncalls
          /\ llm_input[i].sid = session_id

\* C2 as stated: the LLM is shown only messages of session S, and with a
\* checkpointer active every message of every earlier call with the same S
\* (and a call without a session id sees only its own messages).
C2_Original ==
    llm_input # <<>> =>
        /\ \A i \in 1..Len(llm_input) :
              llm_input[i].type # "system" => llm_input[i].sid = session_id
        /\ has_memory =>
              \A j \in 1..Len(produced[session_id]) :
                 produced[session_id][j].call < ncalls =>
                    \E i \in 1..Len(llm_input) : llm_input[i] = produced[session_id][j]
        /\ session_id \in UuidPool =>
              \A i \in 1..Len(llm_input) :
                 llm_input[i].type # "system" => llm_input[i].call = ncalls

\* C4: process_query always returns a string: the content of the last
\* assistant message that does not begin with "Tool execution results:", the
\* "unable to process" text when there is no such message, and the "Sorry"
\* text exactly when an exception occurred.
C4_AlwaysReturnsString ==
    (pc = "idle" /\ ncalls > 0) =>
        /\ result.kind \in {"content", "unable", "sorry"}
        /\ failed <=> result.kind = "sorry"
        /\ result.kind = "content" =>
              /\ result.content \in TextContents
              /\ \E i \in 1..Len(messages) :
                    /\ IsAnswer(messages[i])
                    /\ result.content = messages[i].content
                    /\ \A j \in (i + 1)..Len(messages) : ~IsAnswer(messages[j])
        /\ result.kind = "unable" =>
              \A i \in 1..Len(messages) : ~IsAnswer(messages[i])

\* C4 witness: the scan skipped a "Tool execution results:" message and
\* returned an earlier assistant message
C4_Witness ==
    /\ pc = "idle"
    /\ result.kind = "content"
    /\ last(messages).type = "ai"
    /\ last(messages).content = "tool_results_prefix"

\* how many system prompts a message list holds
SystemCount(msgs) == Cardinality({i \in 1..Len(msgs) : msgs[i].type = "system"})

\* C16 as stated: once an agent step has run, the conversation state begins
\* with the system prompt and holds it exactly once.
C16_Original ==
    (llm_input # <<>> /\ messages # <<>>) =>
        /\ messages[1].type = "system"
        /\ SystemCount(messages) = 1

\* C16 as amended: at every agent step, the first one and every later one, the
\* list given to the LLM is the system prompt followed by the accumulated
\* messages, so the LLM sees the prompt exactly once, at the head; the prompt
\* is put there anew at each step and is never stored: neither the
\* conversation state nor a checkpointed thread ever holds a system message.
C16_PromptPrependedEachStep ==
    /\ [](/\ SystemCount(messages) = 0
          /\ \A s \in SessionIds : SystemCount(threads[s]) = 0
          /\ llm_input # <<>> =>
                /\ llm_input[1] = SystemMessage
                /\ SystemCount(llm_input) = 1)
    /\ [][(llm_input' # llm_input /\ llm_input' # <<>>) =>
             llm_input' = <<SystemMessage>> \o messages]_vars

\* C16 witness: in a second call of a session with memory, after a tools
\* step, the LLM was given the prompt followed by messages of both calls
C16_Witness ==
    /\ has_memory
    /\ ncalls = 2
    /\ nsteps = 2
    /\ Len(llm_input) > 4
    /\ llm_input[1] = SystemMessage
    /\ llm_input[2].call = 1
    /\ llm_input[Len(llm_input)].type = "tool"

C5_NotConfigured ==
    (tool_call.tool # "none" /\ tool_call.client = NoClient) =>
        /\ tool_call.result = NotConfigured
        /\ ~tool_call.built
        /\ ~tool_call.executed

\* C5 witness: a generic query with an unknown table, an unknown metric and
\* invalid filter JSON ran without a client
C5_Witness ==
    /\ tool_call.tool = "run_generic_query"
    /\ tool_call.client = NoClient
    /\ ~tool_call.table_ok
    /\ ~tool_call.metric_ok
    /\ tool_call.filters = "invalid_json"

(***************************************************************************)
(* Claims about the simple producer (checked under SpecProducer)           *)
(***************************************************************************)
\* C6 as stated: in a run spanning 181 seconds from the first iteration,
\* Bitcoin is fetched 6 times and news exactly twice, at t=90 and t=180.
C6_Original ==
    (ppc = "running" /\ elapsed > RunSpan) =>
        /\ btc_fetches = 6
        /\ news_fetches = 2
        /\ news_times = {90, 180}

\* C6 as amended: in a run spanning 181 seconds from the first iteration,
\* Bitcoin is fetched 7 times (t = 0, 30, ..., 180); news is fetched exactly
\* twice, at t=90 and t=180, when the clock reads 0 at the first iteration,
\* and three times, at t=0, 90 and 180, when it reads 90 or more there (as
\* time.time() does).
C6_Cadence ==
    (ppc = "running" /\ elapsed > RunSpan) =>
        /\ btc_fetches = 7
        /\ clock0 = 0 => (news_fetches = 2 /\ news_times = {90, 180})
        /\ clock0 >= NewsGate => (news_fetches = 3 /\ news_times = {0, 90, 180})

\* C6 witness: the loop is still running after 181 seconds on a clock that
\* started at zero, with every Bitcoin fetch published
C6_Witness ==
    /\ ppc = "running"
    /\ elapsed > RunSpan
    /\ clock0 = 0
    /\ published.bitcoin = btc_fetches
    /\ published.news = 2

\* C15 as stated: a gated news attempt that publishes nothing leaves the gate's
\* reference time alone, so news is attempted again on the next cycle.
C15_Original ==
    [][(/\ news_fetches' = news_fetches + 1
        /\ published'.news = published.news
        /\ ppc' = "running") => last_news_fetch' = last_news_fetch]_vars

\* C15 as amended: the 90-second news gate is measured from the last news
\* attempt, whatever its outcome: every attempt that does not end the loop,
\* successful or not, sets the reference time to the current time, so any two
\* news attempts of a run are at least 90 seconds apart.
C15_GateFromLastAttempt ==
    /\ [][(news_fetches' = news_fetches + 1 /\ ppc' = "running") =>
             last_news_fetch' = clock0 + elapsed]_vars
    /\ [](\A a \in news_times : \A b \in news_times :
             a < b => b - a >= NewsGate)

\* C15 witness: the news attempt at t=90 yielded nothing and the cycles at
\* t=120 and t=150 made no further attempt
C15_Witness ==
    /\ ppc = "running"
    /\ clock0 = 0
    /\ news_times = {90}
    /\ published.news = 0
    /\ elapsed = 180

\* C30: an exception other than KeyboardInterrupt raised in an iteration
\* ends the loop: run() is left with the exception after one flush, the news
\* step is not reached when the Bitcoin step raised, and afterwards nothing
\* is fetched, published or flushed.
C30_ExceptionEndsRun ==
    /\ [][(btc_fetches' = btc_fetches + 1 /\ iteration'.raised) =>
             /\ ppc' = "crashed"
             /\ flushes' = flushes + 1
             /\ iteration'.btc \in {"null_price", "produce_raises"} =>
                   news_fetches' = news_fetches]_vars
    /\ [](ppc = "crashed" => flushes = 1)
    /\ [][ppc = "crashed" =>
             UNCHANGED <<ppc, btc_fetches, news_fetches, published, flushes>>]_vars

\* run() has been left by the TypeError of formatting a null price in a
\* later iteration: the payload was published, the producer flushed once
C30_Witness ==
    /\ ppc = "crashed"
    /\ iteration.btc = "null_price"
    /\ iteration.raised
    /\ btc_fetches = 2
    /\ published.bitcoin = 2
    /\ flushes = 1

(***************************************************************************)
(* Claims about the batch ingestion (checked under SpecIngestion)          *)
(***************************************************************************)
\* C7: run_full_ingestion runs its steps in the fixed order; a step starts
\* only if every earlier step ended without raising; on every exit path
\* close_connection runs last and leaves no opened cursor or connection
\* open.
C7_OrderAndCleanup ==
    /\ \A i \in 1..Len(steps) :
          IF steps[i].name = "close" THEN i = Len(steps)
          ELSE i <= Len(StepOrder) /\ steps[i].name = StepOrder[i]
    /\ \A i \in 1..Len(steps) : \A j \in (i + 1)..Len(steps) :
          steps[j].name # "close" => steps[i].ok
    /\ ipc = "done" =>
          /\ steps # <<>>
          /\ steps[Len(steps)].name = "close"
          /\ cursor # "open"
          /\ connection # "open"
          /\ raised <=> (\E i \in 1..Len(steps) : ~steps[i].ok)
    /\ (cursor = "closed" \/ connection = "closed") => ipc = "done"

\* C7 witness: a step in the middle of the run raised and the run ended with
\* cursor and connection closed
C7_Witness ==
    /\ ipc = "done"
    /\ raised
    /\ Len(steps) > 3
    /\ cursor = "closed"
    /\ connection = "closed"

\* validate_data_loads has run
Validated == \E i \in 1..Len(steps) : steps[i].name = "validate"

\* C11: validate_data_loads returns one entry per schema table with
\* expected_rows, actual_rows and match; match is true if and only if the
\* counted rows equal the schema's total_rows, and a failed count query is
\* recorded as actual_rows 0 and match false; neither a mismatch nor a failed
\* count aborts run_full_ingestion: the quality checks and the summary still
\* run, and the run then logs that not all validations passed.
C11_ValidationNeverAborts ==
    /\ DOMAIN validation_results = DOMAIN schemas
    /\ Validated =>
          /\ \A i \in 1..Len(steps) : steps[i].name = "validate" => steps[i].ok
          /\ \A t \in DOMAIN schemas :
                LET e == validation_results[t]
                IN  /\ e.expected_rows = schemas[t]
                    /\ e.error => e.actual_rows = 0 /\ ~e.match
                    /\ ~e.error => /\ e.actual_rows = table_rows[t]
                                   /\ e.match <=> table_rows[t] = schemas[t]
    /\ (Validated /\ ipc \in {"close", "done"}) =>
          /\ ~raised
          /\ Len(steps) >= Len(StepOrder)
          /\ steps[8].name = "quality_checks" /\ steps[8].ok
          /\ steps[9].name = "summary" /\ steps[9].ok
          /\ validation_log = IF \A t \in DOMAIN schemas : validation_results[t].match
                              THEN "all_passed" ELSE "some_failed"
    /\ validation_log # "none" => Validated /\ ipc \in {"close", "done"}

\* C11 witness: one table's count query failed, another table holds fewer
\* rows than expected, and the run went on to the end and logged the failure
C11_Witness ==
    /\ ipc = "done"
    /\ ~raised
    /\ validation_log = "some_failed"
    /\ \E t \in Tables : validation_results[t].error /\ schemas[t] = 0
    /\ \E t \in Tables : /\ ~validation_results[t].error
                         /\ validation_results[t].actual_rows < schemas[t]

(***************************************************************************)
(* Claims about the RAG service and its API (checked under SpecRag)        *)
(***************************************************************************)
\* C8: after upload_pdf_from_bytes returns, the temporary file it created no
\* longer exists, whatever the outcome.
C8_TempFileRemoved ==
    upload.called => ~upload.temp_exists

\* C9: GET /health answers 503 whenever the index statistics could not be
\* obtained, and "healthy" only when the statistics call succeeded.
C9_HealthReflectsStats ==
    response.route = "health" =>
        /\ response.stats = "empty_dict" => response.status = 503
        /\ response.health = "healthy" => response.stats = "stats"
        /\ ~rag_service => response.status = 503

\* C10 as stated: every error response (400, 503, 500) has a body with both
\* detail and type, and every 500 has type "internal_error".
C10_Original ==
    response.status >= 400 =>
        /\ response.detail
        /\ response.type # "none"
        /\ response.status = 500 => response.type = "internal_error"

\* C10 as amended: every error response (400, 503, 500) has a JSON body with
\* detail; type "internal_error" is present exactly in the HTTP 500 that
\* general_exception_handler makes for an exception that escapes the route;
\* the 400 and 503 responses, and the 500 (503 for /health) a route raises
\* for an exception caught in its own try block, carry detail only.
C10_ErrorBodies ==
    /\ response.status >= 400 => response.detail
    /\ response.status \in {0, 200, 400, 500, 503}
    /\ response.origin = "escaped" <=> response.type = "internal_error"
    /\ response.type = "internal_error" => response.status = 500
    /\ response.status \in {400, 503} => response.type = "none"

\* C10 witness: a route answered 500 for an exception caught in its try
\* block, with detail and without type
C10_Witness ==
    /\ response.status = 500
    /\ response.origin = "handler"
    /\ response.detail
    /\ response.type = "none"

\* C28 (checked under SpecUpload): upload_pdf adds to the index the vectors
\* of every batch upserted before a failure and reports a failed upload with
\* success false, document_count 0 and no vector ids; a failed upload leaves
\* the index unchanged exactly when processing failed or the first batch did.
C28_UploadNotAtomic ==
    [][response'.route = "service_upload" /\ nreq' = nreq + 1 =>
         LET u == upload'
         IN  /\ index_vectors' = index_vectors + u.added
             /\ ~u.success => u.document_count = 0 /\ u.vector_ids = 0
             /\ u.failed_batch > 1 =>
                   /\ ~u.success
                   /\ u.added = BatchSize * (u.failed_batch - 1)
             /\ ~u.success =>
                   (u.added = 0 <=> u.process # "docs" \/ u.failed_batch = 1)]_vars

\* an upload of 150 chunks has failed at its second batch: it is reported as
\* failed with no documents, and the index holds the 100 vectors of the first
C28_Witness ==
    /\ response.route = "service_upload"
    /\ ~upload.success
    /\ upload.document_count = 0
    /\ upload.failed_batch = 2
    /\ upload.added = 100
    /\ index_vectors >= 100

(***************************************************************************)
(* Claims about the cloud memory storage (checked under SpecMemory)        *)
(***************************************************************************)
\* the failure value the operations are said to return
FailureValue(op) ==
    CASE op = "save_session" -> "False"
      [] op = "load_session" -> "None"
      [] op = "delete_session" -> "False"
      [] op = "list_sessions" -> "[]"
      [] op = "cleanup_old_sessions" -> "0"
      [] OTHER -> "none"

\* C12: no CloudMemoryStorage operation raises; when the store is unavailable
\* the operation makes no remote call, changes no document and returns false,
\* absent, false, [] and 0 respectively; when a remote call fails the error is
\* swallowed and the same failure value is returned.
C12_NeverRaises ==
    /\ [](returned.op # "none" =>
             /\ ~returned.raised
             /\ ~is_available(firestore_client) =>
                   /\ ~returned.remote
                   /\ returned.value = FailureValue(returned.op)
                   /\ returned.count = 0
             /\ returned.failed =>
                   /\ returned.value = FailureValue(returned.op)
                   /\ returned.count = 0)
    /\ [][~is_available(firestore_client) => docs' = docs]_vars

\* C12 witness: with the store available, a load's remote call failed and the
\* operation returned absent
C12_Witness ==
    /\ is_available(firestore_client)
    /\ returned.op = "load_session"
    /\ returned.remote
    /\ returned.failed
    /\ returned.value = "None"

\* C23 (as stated): every run of cleanup_old_sessions on an available store
\* deletes exactly the documents that were old when it started and returns
\* the number of documents it deleted, runs in which a remote error occurs
\* after some deletions included.
C23_CleanupCountsDeletions ==
    [][(/\ nops' = nops + 1
        /\ returned'.op = "cleanup_old_sessions"
        /\ is_available(firestore_client)) =>
          /\ returned'.removed = old_sessions(docs)
          /\ returned'.count = Cardinality(returned'.removed)]_vars

(***************************************************************************)
(* Claims about the SQL builder (checked under SpecBuilder)                *)
(***************************************************************************)
\* the table a builder call works on
BuiltTable ==
    IF sql_query.builder = "build_sales_query" THEN "fct_sales"
    ELSE sql_request.table_name

\* C13: for each of the four registered tables and any metric name that is
\* not a key of that table's metrics map, build_generic_query (and
\* build_sales_query for fct_sales) returns text that begins with "Error:" and
\* lists exactly that table's metric names and none of another table's; it
\* never returns SQL text in that case.
C13_UnknownMetricError ==
    (/\ sql_query.builder # "none"
     /\ BuiltTable \in DOMAIN SEMANTIC_MODELS
     /\ sql_request.metric \notin DOMAIN SEMANTIC_MODELS[BuiltTable].metrics) =>
        /\ sql_query.out.head = "Error:"
        /\ sql_query.out.what = "metric"
        /\ sql_query.out.listed = DOMAIN SEMANTIC_MODELS[BuiltTable].metrics
        /\ \A t \in DOMAIN SEMANTIC_MODELS \ {BuiltTable} :
              sql_query.out.listed \cap DOMAIN SEMANTIC_MODELS[t].metrics = {}

\* C13 witness: stg_bitcoin was asked for a metric that only fct_sales
\* registers and the builder answered with the error text
C13_Witness ==
    /\ sql_query.builder = "build_generic_query"
    /\ sql_request.table_name = "stg_bitcoin"
    /\ sql_request.metric = "total_revenue"
    /\ sql_query.out.head = "Error:"

\* the date conjuncts of a WHERE clause
DatePositions(w) == {i \in 1..Len(w) : w[i].kind \in {"between", "to_char_month"}}

\* C14: build_sales_query emits at most one date predicate: BETWEEN exactly
\* when start_date and end_date are both given (also when month is given as
\* well), the TO_CHAR month predicate exactly when month is given and the
\* range is not complete, none otherwise; when present it is the first
\* conjunct of the WHERE clause, before every filter conjunct.
C14_OneDatePredicate ==
    (sql_query.builder = "build_sales_query" /\ sql_query.out.head = "SELECT") =>
        LET w == sql_query.out.where_clauses
            range == truthy(sql_request.start_date) /\ truthy(sql_request.end_date)
        IN  /\ DatePositions(w) \subseteq {1}
            /\ (\E i \in DatePositions(w) : w[i].kind = "between") <=> range
            /\ (\E i \in DatePositions(w) : w[i].kind = "to_char_month") <=>
                  (truthy(sql_request.month) /\ ~range)
            /\ \A i \in DatePositions(w) :
                  /\ w[i].column = fct_sales_semantic.date_column
                  /\ w[i].kind = "between" =>
                        /\ w[i].value = sql_request.start_date
                        /\ w[i].value2 = sql_request.end_date
                  /\ w[i].kind = "to_char_month" => w[i].value = sql_request.month
            /\ Len(w) = Cardinality(DatePositions(w)) + Len(sql_request.filters)

\* C14 witness: range and month were all given together with two filters, and
\* the WHERE clause starts with the BETWEEN predicate
C14_Witness ==
    /\ sql_query.builder = "build_sales_query"
    /\ sql_query.out.head = "SELECT"
    /\ truthy(sql_request.start_date)
    /\ truthy(sql_request.end_date)
    /\ truthy(sql_request.month)
    /\ Len(sql_request.filters) = 2
    /\ sql_query.out.where_clauses[1].kind = "between"

(***************************************************************************)
(* Claims about the warehouse-sink consumer (checked under SpecSink)       *)
(***************************************************************************)
\* C17: every well-formed news event consumed from topic news, in the basic
\* shape {source, headline, source_name, published_at, timestamp} as well as
\* in the enhanced shape, results in one row inserted into news_events_raw by
\* one parameterized insert (the warehouse accepting the statement).
C17_NewsRowPerEvent ==
    (/\ last_message.event = "message"
     /\ last_message.topic = "news"
     /\ last_message.payload.json_ok
     /\ last_message.payload.keys \in {NewsBasicKeys, NewsEnhancedKeys}
     /\ last_message.db_ok) =>
        /\ last_message.insert.table = "news_events_raw"
        /\ last_message.insert.executes = 1
        /\ last_message.insert.rows = 1


\* the step is a poll that returned a message
SinkPolledMessage ==
    /\ sink_polls' = sink_polls + 1
    /\ last_message'.event = "message"

\* C21: a message whose insert fails, whose value is not JSON, or whose topic
\* is unknown leaves the loop polling, is handed to at most one execute and
\* adds no row (it is dropped, not retried); a valid message polled at any
\* later point of the loop is inserted as one row.
C21_BadMessageDropped ==
    [][SinkPolledMessage =>
         LET m == last_message'
         IN  /\ sink_pc' = "polling"
             /\ m.insert.executes <= 1
             /\ m.insert.rows = 0 => raw_rows' = raw_rows
             /\ (/\ m.topic = "bitcoin"
                 /\ m.payload = Payload(TRUE, BitcoinKeys)
                 /\ m.db_ok) =>
                   raw_rows' = [raw_rows EXCEPT !.bitcoin_prices_raw = @ + 1]]_vars

\* a Bitcoin message whose insert the warehouse refused has been dropped
\* after one execute, with the loop still polling and the row of an earlier
\* valid message in the table
C21_Witness ==
    /\ sink_pc = "polling"
    /\ last_message.event = "message"
    /\ last_message.topic = "bitcoin"
    /\ last_message.payload = Payload(TRUE, BitcoinKeys)
    /\ ~last_message.db_ok
    /\ last_message.insert.executes = 1
    /\ last_message.insert.rows = 0
    /\ raw_rows = [bitcoin_prices_raw |-> 1, news_events_raw |-> 0]

\* C22 (as stated): whenever run() has ended, the broker consumer is closed
\* and the warehouse connection is closed if it had been opened.
C22_BothClosedAtExit ==
    sink_pc = "stopped" =>
        /\ sink_consumer = "closed"
        /\ snowflake_conn \in {"None", "closed"}

(***************************************************************************)
(* Claims about the RAG QA chain (checked under SpecChain)                 *)
(***************************************************************************)
\* the step is a call of the operation op
ChainStep(op) == chain_calls' = chain_calls + 1 /\ chain_result'.op = op

\* C18 (as stated): after get_relevant_documents(question, k) returns,
\* whether the retrieval succeeded or raised inside the retriever, the k of
\* the retriever's search_kwargs equals the value it had before the call.
C18_FanOutRestored ==
    [][ChainStep("get_relevant_documents") => search_kwargs' = search_kwargs]_vars

\* C19: a call of RAGService.ask_question with a non-empty namespace leaves
\* get_conversation_history of the persistent chain as it was and sees none
\* of the earlier turns, conversational or not; with an empty namespace a
\* successful conversational call appends exactly one question/answer turn
\* to that history, and a single-turn call leaves the history unchanged.
C19_NamespaceAndMemoryFrame ==
    [][ChainStep("ask_question") =>
         LET before == get_conversation_history(chat_memory)
             after == get_conversation_history(chat_memory')
             r == chain_result'
         IN  /\ r.namespace # "" => after = before /\ r.seen = <<>>
             /\ r.namespace = "" /\ r.conversational /\ r.ok =>
                   after = Append(before, [question |-> r.question,
                                           answer |-> AnswerTo[r.question]])
             /\ ~r.conversational => after = before]_vars

\* a conversational call with a namespace has succeeded while the persistent
\* chain holds earlier turns, none of which the call saw
C19_Witness ==
    /\ chain_result.op = "ask_question"
    /\ chain_result.namespace # ""
    /\ chain_result.conversational
    /\ chain_result.ok
    /\ Len(get_conversation_history(chat_memory)) = 2
    /\ chain_result.seen = <<>>

(***************************************************************************)
(* Claims about the console consumer (checked under SpecConsole)           *)
(***************************************************************************)
\* the step is a poll that returned an event of the set evs
ConsolePolled(evs) ==
    /\ console_polls' # console_polls
    /\ console_event'.event \in evs

\* C20: in the loop the summary is printed exactly by the empty poll that
\* brings to 30 the empty polls since the last printed summary or processed
\* message; every printed summary and every processed message sets the idle
\* counter to 0; a broker error or a partition end leaves the counter as it
\* is and the loop running.
C20_SummaryEvery30EmptyPolls ==
    [][/\ printed'.loop # printed.loop <=>
             ConsolePolled({"empty"}) /\ idle_polls + 1 = 30
       /\ printed'.loop # printed.loop => stats_counter' = 0
       /\ ConsolePolled({"message"}) => stats_counter' = 0
       /\ ConsolePolled({"partition_eof", "error"}) =>
             stats_counter' = stats_counter /\ console_pc' = "running"]_vars

\* the summary has just been printed by the 31st empty poll: a message was
\* processed after the first one, and an error event came during the wait
C20_Witness ==
    /\ printed.loop = 1
    /\ console_event.event = "empty"
    /\ console_polls.empty = 31
    /\ console_polls.other = 2
    /\ message_counts.total = 1
    /\ stats_counter = 0

(***************************************************************************)
(* Claims about the standalone RAG UI (checked under SpecUi)               *)
(***************************************************************************)
\* C24: delete_documents is executed only by a click on the button made
\* while the flag is armed; a click while it is not armed arms it, executes
\* nothing and deletes nothing; a successful deletion disarms the flag; and
\* the successful deletions never outnumber the arming clicks.
C24_DoubleConfirmation ==
    /\ [][ui_counts'.events = ui_counts.events + 1 =>
            LET e == ui_event'
            IN  /\ e.executed => e.widget = "delete_all" /\ confirm_delete
                /\ e.deleted => e.executed /\ ~confirm_delete'
                /\ e.widget = "delete_all" /\ ~confirm_delete =>
                      /\ confirm_delete'
                      /\ ~e.executed
                      /\ ui_vectors' = ui_vectors]_vars
    /\ [](ui_counts.deletions <= ui_counts.armings)

\* two successful deletions, each after an arming click of its own
C24_Witness ==
    /\ ui_counts.deletions = 2
    /\ ui_counts.armings = 2
    /\ ui_event.deleted
    /\ ~confirm_delete

(***************************************************************************)
(* Claims about the integrated chatbot (checked under SpecChat)            *)
(***************************************************************************)
\* C25 (as stated): the "Sources" list of a document-mode answer has at most
\* 3 entries and no source name twice, for every list of retrieved sources;
\* with no sources nothing is appended.
C25_SourcesDistinct ==
    chat_pc = "answered" =>
        LET e == chat_answer.entries
        IN  /\ Len(e) <= 3
            /\ \A i, j \in 1..Len(e) : e[i] = e[j] => i = j
            /\ chat_sources = <<>> => ~chat_answer.header /\ e = <<>>

(***************************************************************************)
(* Claims about the PDF processor (checked under SpecPdf)                  *)
(***************************************************************************)
\* some page of the PDF has text that is not whitespace
HasRealText == \E i \in 1..Len(pdf_pages) : pdf_pages[i] = "text"

\* C26 (as stated): process_pdf raises and produces no chunks whenever every
\* page's extracted text is empty or whitespace only, and returns a chunk
\* list only when at least one page has non-whitespace text.
C26_NoRealTextRaises ==
    pdf_pc = "done" =>
        /\ ~HasRealText => pdf_result.raised /\ pdf_result.documents = <<>>
        /\ ~pdf_result.raised => HasRealText

(***************************************************************************)
(* Claims about the sales simulator (checked under SpecSim)                *)
(***************************************************************************)
\* C27 (as stated): across Start clicks, Stop clicks and re-renders, Start is
\* enabled iff the generating toggle is off and Stop iff it is on; a render
\* with the toggle on adds transactions_per_batch to total_transactions and
\* the batch's sum of quantity * avg_price to total_revenue; a render with
\* the toggle off leaves both totals unchanged; the totals never decrease.
C27_ButtonsFollowToggle ==
    /\ [](start_enabled <=> ~generating)
    /\ [](stop_enabled <=> generating)
    /\ [][sim_renders' = sim_renders + 1 =>
            /\ generating' =>
                  /\ total_transactions' = total_transactions + sim_event'.per_batch
                  /\ total_revenue' = total_revenue + batch_revenue(sim_event'.batch)
            /\ ~generating' =>
                  /\ total_transactions' = total_transactions
                  /\ total_revenue' = total_revenue
            /\ total_transactions' >= total_transactions
            /\ total_revenue' >= total_revenue]_vars

\* C29: total is always the sum of the per-topic counters and the number of
\* polled messages whose value parsed as JSON; a message whose value is not
\* JSON changes no counter; a message that parses and then fails in the
\* formatting is counted.
C29_CountersAgree ==
    /\ [](/\ message_counts.total = message_counts.bitcoin + message_counts.news
          /\ message_counts.total = console_polls.parsed)
    /\ [][ConsolePolled({"message"}) =>
            /\ console_event'.value = "invalid" => message_counts' = message_counts
            /\ console_event'.value = "array" =>
                  /\ message_counts'.total = message_counts.total + 1
                  /\ message_counts'[console_event'.topic] =
                        message_counts[console_event'.topic] + 1]_vars

\* a news message whose JSON value is an array, on which the formatting
\* fails, has been counted after a Bitcoin message
C29_Witness ==
    /\ console_event = [event |-> "message", topic |-> "news", value |-> "array"]
    /\ message_counts = [bitcoin |-> 1, news |-> 1, total |-> 2]
    /\ console_polls.parsed = 2
====
